---- MODULE Spec2Model ----
(***************************************************************************)
(* The WebSocket messaging backbone of situ8-prototype: the connect and    *)
(* disconnect handlers and the message router                              *)
(* (src/lambdas/websocket/{connect,disconnect,message-router}).            *)
(*                                                                         *)
(* The Connection Registry and the Message Store are DynamoDB tables; the  *)
(* transport is the API Gateway management API.  One Lambda invocation     *)
(* is one action.  Every call to a table or to the transport may raise;    *)
(* which calls raise in an invocation, the order in which a scan returns   *)
(* its items and what the transport answers for each recipient are chosen  *)
(* by the environment record e of the invocation.                          *)
(***************************************************************************)
EXTENDS Integers, Sequences, FiniteSets, TLC

\* ---------------------------------------------------------------- bounds
NumConns == 2
MaxTime == 2
MaxMsgs == 1
MaxStored == 3
MaxRequests == 2
MaxFlights == 2

\* ------------------------------------------------------ program constants
\* limit=50 of the history page sent on join, and the default of load_more
HistoryLimit == 50

Conns == 1..NumConns
Times == 0..MaxTime
Channels == {"main", "ops"}
\* an attribute (or a frame field) that is absent
None == "none"
NoTime == -1
NoKey == [channelId |-> None, timestamp |-> NoTime]

VARIABLES
    registry,   \* connections_table: connectionId -> item, for the ids that have one
    store,      \* messages_table: (channelId, timestamp) -> message
    sess,       \* the transport's view of each connection id: new, open, closed
    now,        \* datetime.utcnow(), in ticks
    nextId,     \* the next uuid4
    last,       \* the invocation that has just ended: its event, response and calls
    joined,     \* per connection, the join it was last acknowledged and not yet used
    pager,      \* a client paging through the history of one channel
    hook,       \* the webhook receiver: its tables, bus and queue, and its last call
    flight      \* the invocations that run at the same time, call by call

vars == <<registry, store, sess, now, nextId, last, joined, pager, hook, flight>>

\* ------------------------------------------------------------ environment
Outcomes == {"ok", "gone", "error"}

\* the injective sequences of all connection ids: the orders a scan may return
Perms == {p \in [1..NumConns -> Conns] : \A i, j \in 1..NumConns : p[i] = p[j] => i = j}

\* the environment in which nothing fails
BaseEnv ==
    [getFail |-> FALSE, updFail |-> FALSE, scanFail |-> FALSE, putFail |-> FALSE,
     queryFail |-> FALSE, lekAtEnd |-> TRUE, delFail |-> {},
     order |-> [i \in 1..NumConns |-> i],
     sendRes |-> [c \in Conns |-> "ok"]]

\* post_to_connection reaches an open connection or fails; a connection id the
\* transport no longer knows is answered GoneException (or another error)
SendOutcomes(c) == IF sess[c] = "open" THEN {"ok", "error"} ELSE {"gone", "error"}

\* ------------------------------------------------------------ python dicts
\* d.get(key, default)
Get(v, default) == IF v = None THEN default ELSE v

\* ------------------------------------------------------------ the registry
Item(userId, userEmail, userRole, channelId, connectedAt, lastActivity, status) ==
    [userId |-> userId, userEmail |-> userEmail, userRole |-> userRole,
     channelId |-> channelId, connectedAt |-> connectedAt,
     lastActivity |-> lastActivity, status |-> status]

\* an item that has its key only
EmptyItem == Item(None, None, None, None, NoTime, NoTime, None)

\* connections_table.put_item(Item=item)
reg_put_item(reg, c, item) == [x \in DOMAIN reg \cup {c} |-> IF x = c THEN item ELSE reg[x]]

\* connections_table.delete_item(Key={'connectionId': c})
\* mutant: the delete of an absent key takes another item away
reg_delete_item_shifting(reg, c) ==
    IF c \in DOMAIN reg \/ DOMAIN reg = {}
    THEN [x \in DOMAIN reg \ {c} |-> reg[x]]
    ELSE [x \in DOMAIN reg \ {CHOOSE y \in DOMAIN reg : TRUE} |-> reg[x]]

\* connections_table.delete_item(Key={'connectionId': c}): no error when absent
reg_delete_item(reg, c) == [x \in DOMAIN reg \ {c} |-> reg[x]]

\* mutant: the join update writes the default channel
reg_update_channel_default(reg, c, channel, t) ==
    LET old == IF c \in DOMAIN reg THEN reg[c] ELSE EmptyItem
    IN  reg_put_item(reg, c, [old EXCEPT !.channelId = "main", !.lastActivity = t])

\* mutant: the join update sets lastActivity only
reg_update_channel_forgotten(reg, c, channel, t) ==
    LET old == IF c \in DOMAIN reg THEN reg[c] ELSE EmptyItem
    IN  reg_put_item(reg, c, [old EXCEPT !.lastActivity = t])

\* connections_table.update_item(Key=..., UpdateExpression='SET channelId = :channel,
\* lastActivity = :time'): UpdateItem adds the item when the key has none
reg_update_channel(reg, c, channel, t) ==
    LET old == IF c \in DOMAIN reg THEN reg[c] ELSE EmptyItem
    IN  reg_put_item(reg, c, [old EXCEPT !.channelId = channel, !.lastActivity = t])

\* mutant: the ping update is the update of join
reg_update_activity_and_channel(reg, c, t) ==
    LET old == IF c \in DOMAIN reg THEN reg[c] ELSE EmptyItem
    IN  reg_put_item(reg, c, [old EXCEPT !.channelId = "main", !.lastActivity = t])

\* connections_table.update_item(Key=..., UpdateExpression='SET lastActivity = :time')
reg_update_activity(reg, c, t) ==
    LET old == IF c \in DOMAIN reg THEN reg[c] ELSE EmptyItem
    IN  reg_put_item(reg, c, [old EXCEPT !.lastActivity = t])

\* mutant: a missing item is read as an empty one
get_connection_info_default(reg, c, e) ==
    IF e.getFail \/ c \notin DOMAIN reg
    THEN [found |-> TRUE, item |-> EmptyItem]
    ELSE [found |-> TRUE, item |-> reg[c]]

get_connection_info(reg, c, e) ==
    IF e.getFail \/ c \notin DOMAIN reg
    THEN [found |-> FALSE, item |-> EmptyItem]
    ELSE [found |-> TRUE, item |-> reg[c]]

\* mutant: an item without channelId counts as a member of the default channel
InChannel_or_default(reg, c, channel) ==
    c \in DOMAIN reg /\ Get(reg[c].channelId, "main") = channel

\* FilterExpression='channelId = :channel'
InChannel(reg, c, channel) == c \in DOMAIN reg /\ reg[c].channelId = channel

\* mutant: the scan without its filter
get_channel_connections_unfiltered(reg, channel, e) ==
    IF e.scanFail THEN <<>>
    ELSE SelectSeq(e.order, LAMBDA c : c \in DOMAIN reg)

\* the scan filtered by channelId, in the order the scan returns the items
get_channel_connections(reg, channel, e) ==
    IF e.scanFail THEN <<>>
    ELSE SelectSeq(e.order, LAMBDA c : InChannel(reg, c, channel))

\* --------------------------------------------------------------- the store
MessageKey(m) == [channelId |-> m.channelId, timestamp |-> m.timestamp]

\* mutant: the write is lost
store_put_item_lost(sto, m) == sto

\* messages_table.put_item(Item=message): replaces the item of the same key
store_put_item(sto, m) ==
    [k \in DOMAIN sto \cup {MessageKey(m)} |-> IF k = MessageKey(m) THEN m ELSE sto[k]]


\* ScanIndexForward=False: the keys of the channel, newest first
RECURSIVE Descending(_)
Descending(keys) ==
    IF keys = {} THEN <<>>
    ELSE LET k == CHOOSE x \in keys : \A y \in keys : y.timestamp <= x.timestamp
         IN  <<k>> \o Descending(keys \ {k})

Take(s, n) == SubSeq(s, 1, IF Len(s) < n THEN Len(s) ELSE n)

Reverse(s) == [i \in 1..Len(s) |-> s[Len(s) + 1 - i]]

NoPage == [messages |-> <<>>, hasMore |-> FALSE, lastEvaluatedKey |-> NoKey]

\* mutant: the start key is inclusive
store_query_inclusive(sto, channel, limit, key, e) ==
    IF e.queryFail \/ limit < 1 \/ (key # NoKey /\ key.channelId # channel)
    THEN [raised |-> TRUE, Items |-> <<>>, LastEvaluatedKey |-> NoKey]
    ELSE LET keys == {k \in DOMAIN sto : /\ k.channelId = channel
                                         /\ (key # NoKey => k.timestamp <= key.timestamp)}
             all == Descending(keys)
             items == Take(all, limit)
             more == Len(all) > limit \/ (Len(all) = limit /\ e.lekAtEnd)
         IN  [raised |-> FALSE,
              Items |-> [i \in 1..Len(items) |-> sto[items[i]]],
              LastEvaluatedKey |-> IF more THEN items[Len(items)] ELSE NoKey]

\* messages_table.query(KeyConditionExpression='channelId = :channel', Limit=limit,
\* ScanIndexForward=False[, ExclusiveStartKey=key]).  The query raises when the
\* table cannot be read, when Limit < 1 and when the start key is not a key of the
\* queried channel.  It stops after Limit items and then reports the key of the
\* last one; when those were the last items of the channel it may still report it.
store_query(sto, channel, limit, key, e) ==
    IF e.queryFail \/ limit < 1 \/ (key # NoKey /\ key.channelId # channel)
    THEN [raised |-> TRUE, Items |-> <<>>, LastEvaluatedKey |-> NoKey]
    ELSE LET keys == {k \in DOMAIN sto : /\ k.channelId = channel
                                         /\ (key # NoKey => k.timestamp < key.timestamp)}
             all == Descending(keys)
             items == Take(all, limit)
             more == Len(all) > limit \/ (Len(all) = limit /\ e.lekAtEnd)
         IN  [raised |-> FALSE,
              Items |-> [i \in 1..Len(items) |-> sto[items[i]]],
              LastEvaluatedKey |-> IF more THEN items[Len(items)] ELSE NoKey]

get_recent_messages(sto, channel, limit, last_evaluated_key, e) ==
    LET response == store_query(sto, channel, limit, last_evaluated_key, e)
    IN  IF response.raised THEN NoPage
        ELSE [messages |-> Reverse(response.Items),
              hasMore |-> response.LastEvaluatedKey # NoKey,
              lastEvaluatedKey |-> response.LastEvaluatedKey]

\* ------------------------------------------------- the calls of an invocation
\* what an invocation wrote or sent, in the order of the calls
Data(messages, hasMore, key, channel, userId) ==
    [messages |-> messages, hasMore |-> hasMore, lastEvaluatedKey |-> key,
     channelId |-> channel, userId |-> userId]

NoData == Data(<<>>, FALSE, NoKey, None, None)

\* api_gateway.post_to_connection(ConnectionId=to, Data=...) and its outcome
SendEv(to, kind, res, data) == [t |-> "send", to |-> to, kind |-> kind, res |-> res, data |-> data]

\* connections_table.delete_item(Key={'connectionId': to})
DeleteEv(to, failed) ==
    [t |-> "delete", to |-> to, kind |-> None, res |-> IF failed THEN "error" ELSE "ok",
     data |-> NoData]

\* messages_table.put_item(Item=message)
AppendEv(m, failed) ==
    [t |-> "append", to |-> 0, kind |-> None, res |-> IF failed THEN "error" ELSE "ok",
     data |-> Data(<<m>>, FALSE, NoKey, m.channelId, m.senderId)]

\* connections_table.update_item(Key={'connectionId': to}, ...)
UpdateEv(to, kind, failed) ==
    [t |-> "update", to |-> to, kind |-> kind, res |-> IF failed THEN "error" ELSE "ok",
     data |-> NoData]

\* mutant: the gone connections are never deleted
ReapedNone(conns, e) == {}

\* mutant: a send that failed for any reason removes the recipient
Reaped_any_failure(conns, e) ==
    {conns[i] : i \in {j \in 1..Len(conns) : e.sendRes[conns[j]] # "ok"}} \ e.delFail

\* the connections among conns whose delete_item is reached and does not raise
Reaped(conns, e) ==
    {conns[i] : i \in {j \in 1..Len(conns) : e.sendRes[conns[j]] = "gone"}} \ e.delFail

RemoveAll(reg, gone) == [x \in DOMAIN reg \ gone |-> reg[x]]

\* a response of the router, the state it leaves and the calls it made; raised
\* when an exception left the handler
Result(reg, sto, status, tag, arg, log) ==
    [reg |-> reg, sto |-> sto, raised |-> FALSE, status |-> status, tag |-> tag,
     arg |-> arg, log |-> log]

Raise(reg, sto, log) ==
    [reg |-> reg, sto |-> sto, raised |-> TRUE, status |-> 0, tag |-> None,
     arg |-> None, log |-> log]

\* ------------------------------------------------------------ the dispatcher
\* the loop of broadcast_to_channel: a gone recipient is deleted before the next send
RECURSIVE BroadcastLoop(_, _, _, _, _)
BroadcastLoop(conns, kind, data, exclude_connection, e) ==
    IF conns = <<>> THEN <<>>
    ELSE LET conn_id == Head(conns)
             res == e.sendRes[conn_id]
             here == IF conn_id = exclude_connection THEN <<>>
                     ELSE <<SendEv(conn_id, kind, res, data)>> \o
                          (IF res = "gone"
                           THEN <<DeleteEv(conn_id, conn_id \in e.delFail)>>
                           ELSE <<>>)
         IN  here \o BroadcastLoop(Tail(conns), kind, data, exclude_connection, e)

\* mutant: nobody is excluded
broadcast_to_channel_all(reg, channel, kind, data, exclude_connection, e) ==
    LET connections == get_channel_connections(reg, channel, e)
    IN  [reg |-> RemoveAll(reg, Reaped(connections, e)),
         log |-> BroadcastLoop(connections, kind, data, 0, e)]

broadcast_to_channel(reg, channel, kind, data, exclude_connection, e) ==
    LET connections == get_channel_connections(reg, channel, e)
        recipients == SelectSeq(connections, LAMBDA c : c # exclude_connection)
    IN  [reg |-> RemoveAll(reg, Reaped(recipients, e)),
         log |-> BroadcastLoop(connections, kind, data, exclude_connection, e)]

\* mutant: a send that failed is tried again
MessageFanout_retrying(conns, data, e) ==
    LET failed_connections == SelectSeq(conns, LAMBDA c : e.sendRes[c] = "gone")
        again == SelectSeq(conns, LAMBDA c : e.sendRes[c] = "error")
    IN  [i \in 1..Len(conns) |-> SendEv(conns[i], "message", e.sendRes[conns[i]], data)]
        \o [i \in 1..Len(again) |-> SendEv(again[i], "message", "error", data)]
        \o [i \in 1..Len(failed_connections) |->
               DeleteEv(failed_connections[i], failed_connections[i] \in e.delFail)]

\* mutant: the sender is skipped, as broadcast_to_channel does
MessageFanout_excluding(conns, data, e) ==
    LET others == SelectSeq(conns, LAMBDA c : ("u" \o ToString(c)) # data.userId)
        failed_connections == SelectSeq(others, LAMBDA c : e.sendRes[c] = "gone")
    IN  [i \in 1..Len(others) |-> SendEv(others[i], "message", e.sendRes[others[i]], data)]
        \o [i \in 1..Len(failed_connections) |->
               DeleteEv(failed_connections[i], failed_connections[i] \in e.delFail)]

\* the loops of handle_message: every send first, then the deletes of the gone
MessageFanout(conns, data, e) ==
    LET failed_connections == SelectSeq(conns, LAMBDA c : e.sendRes[c] = "gone")
    IN  [i \in 1..Len(conns) |-> SendEv(conns[i], "message", e.sendRes[conns[i]], data)]
        \o [i \in 1..Len(failed_connections) |->
               DeleteEv(failed_connections[i], failed_connections[i] \in e.delFail)]


\* ------------------------------------------------------------------ frames
\* event['body']: a JSON object with the fields the router reads, or a body that
\* json.loads rejects ("badjson"), or JSON that is no object ("nonobject")
Frame(action, channelId, type, limit, cursor, key) ==
    [kind |-> "object", action |-> action, channelId |-> channelId, type |-> type,
     metadata |-> None, limit |-> limit, cursor |-> cursor, lastEvaluatedKey |-> key]

\* body.get('metadata', {}): a mapping of strings ("strings"), or one that holds an
\* integer somewhere ("integers"), which the store returns as a Decimal
WithMetadata(frame, metadata) == [frame EXCEPT !.metadata = metadata]

\* json.dumps of messages read from the store: get_recent_messages turns the
\* Decimals at the top level of a message into floats, not the ones inside its
\* metadata, and json.dumps raises TypeError on a Decimal
Serializable(messages) ==
    \A i \in 1..Len(messages) : messages[i].metadata # "integers"

BadFrame(kind) == [Frame(None, None, None, NoTime, NoKey, NoKey) EXCEPT !.kind = kind]

\* a or b
Or(a, b) == IF a # NoKey THEN a ELSE b

\* ------------------------------------------------------------- the handlers
\* mutant: a failed put_item ends the invocation
handle_message_aborting(reg, sto, connection_id, body, e, t, id) ==
    LET sender_info == get_connection_info(reg, connection_id, e)
    IN  IF ~sender_info.found
        THEN Result(reg, sto, 401, "Connection not found", None, <<>>)
        ELSE
        LET channel_id == Get(body.channelId, Get(sender_info.item.channelId, "main"))
            message == [messageId |-> id, channelId |-> channel_id,
                        senderId |-> Get(sender_info.item.userId, "unknown"),
                        senderEmail |-> Get(sender_info.item.userEmail, "unknown"),
                        senderRole |-> Get(sender_info.item.userRole, "user"),
                        type |-> Get(body.type, "text"), timestamp |-> t,
                        metadata |-> Get(body.metadata, "strings")]
            channel_connections == get_channel_connections(reg, channel_id, e)
            data == Data(<<message>>, FALSE, NoKey, channel_id, message.senderId)
        IN  IF e.putFail
            THEN Raise(reg, sto, <<AppendEv(message, TRUE)>>)
            ELSE Result(RemoveAll(reg, Reaped(channel_connections, e)),
                        store_put_item(sto, message),
                        200, "Message sent", ToString(id),
                        <<AppendEv(message, FALSE)>> \o
                        MessageFanout(channel_connections, data, e))

handle_message(reg, sto, connection_id, body, e, t, id) ==
    LET sender_info == get_connection_info(reg, connection_id, e)
    IN  IF ~sender_info.found
        THEN Result(reg, sto, 401, "Connection not found", None, <<>>)
        ELSE
        LET channel_id == Get(body.channelId, Get(sender_info.item.channelId, "main"))
            message == [messageId |-> id, channelId |-> channel_id,
                        senderId |-> Get(sender_info.item.userId, "unknown"),
                        senderEmail |-> Get(sender_info.item.userEmail, "unknown"),
                        senderRole |-> Get(sender_info.item.userRole, "user"),
                        type |-> Get(body.type, "text"), timestamp |-> t,
                        metadata |-> Get(body.metadata, "strings")]
            sto1 == IF e.putFail THEN sto ELSE store_put_item(sto, message)
            channel_connections == get_channel_connections(reg, channel_id, e)
            data == Data(<<message>>, FALSE, NoKey, channel_id, message.senderId)
        IN  Result(RemoveAll(reg, Reaped(channel_connections, e)), sto1,
                   200, "Message sent", ToString(id),
                   <<AppendEv(message, e.putFail)>> \o
                   MessageFanout(channel_connections, data, e))

handle_join_channel(reg, sto, connection_id, body, e, t) ==
    LET channel_id == Get(body.channelId, "main")
        reg1 == IF e.updFail THEN reg
                ELSE reg_update_channel(reg, connection_id, channel_id, t)
        log1 == <<UpdateEv(connection_id, "channelId", e.updFail)>>
        sender_info == get_connection_info(reg1, connection_id, e)
    IN  IF ~sender_info.found
        THEN Raise(reg1, sto, log1)     \* sender_info.get on None
        ELSE
        LET b == broadcast_to_channel(reg1, channel_id, "user_joined",
                     Data(<<>>, FALSE, NoKey, channel_id, sender_info.item.userId),
                     connection_id, e)
            message_history == get_recent_messages(sto, channel_id, HistoryLimit, NoKey, e)
        IN  Result(b.reg, sto, 200, "Joined channel", channel_id,
                   log1 \o b.log \o
                   (IF ~Serializable(message_history.messages)
                    THEN <<>>           \* json.dumps raises inside the try
                    ELSE <<SendEv(connection_id, "message_history",
                                  e.sendRes[connection_id],
                                  Data(message_history.messages, message_history.hasMore,
                                       message_history.lastEvaluatedKey, channel_id,
                                       None))>>))

\* handle_leave_channel and handle_typing_indicator differ in the notice only
handle_notice(reg, sto, connection_id, body, e, kind, tag) ==
    LET channel_id == Get(body.channelId, "main")
        sender_info == get_connection_info(reg, connection_id, e)
    IN  IF ~sender_info.found
        THEN Raise(reg, sto, <<>>)      \* sender_info.get on None
        ELSE
        LET b == broadcast_to_channel(reg, channel_id, kind,
                     Data(<<>>, FALSE, NoKey,
                          IF kind = "typing" THEN None ELSE channel_id,
                          sender_info.item.userId),
                     connection_id, e)
        IN  Result(b.reg, sto, 200, tag, IF kind = "typing" THEN None ELSE channel_id,
                   b.log)

\* mutant: a leave frame without channelId is refused
handle_leave_channel_strict(reg, sto, connection_id, body, e) ==
    IF body.channelId = None
    THEN Result(reg, sto, 400, "Missing channelId", None, <<>>)
    ELSE handle_notice(reg, sto, connection_id, body, e, "user_left", "Left channel")

\* mutant: leave takes the sender out of its channel
handle_leave_channel_leaving(reg, sto, connection_id, body, e) ==
    LET r == handle_notice(reg, sto, connection_id, body, e, "user_left", "Left channel")
    IN  IF connection_id \in DOMAIN r.reg
        THEN [r EXCEPT !.reg[connection_id].channelId = None]
        ELSE r

handle_leave_channel(reg, sto, connection_id, body, e) ==
    handle_notice(reg, sto, connection_id, body, e, "user_left", "Left channel")

handle_typing_indicator(reg, sto, connection_id, body, e) ==
    handle_notice(reg, sto, connection_id, body, e, "typing", "Typing indicator sent")

\* mutant: a failed update ends the ping
handle_ping_strict(reg, sto, connection_id, e, t) ==
    IF e.updFail
    THEN Raise(reg, sto, <<UpdateEv(connection_id, "lastActivity", TRUE)>>)
    ELSE LET reg1 == reg_update_activity(reg, connection_id, t)
             log == <<UpdateEv(connection_id, "lastActivity", FALSE),
                      SendEv(connection_id, "pong", e.sendRes[connection_id], NoData)>>
         IN  IF e.sendRes[connection_id] # "ok"
             THEN Raise(reg1, sto, log)
             ELSE Result(reg1, sto, 200, "Pong", None, log)

handle_ping(reg, sto, connection_id, e, t) ==
    LET reg1 == IF e.updFail THEN reg ELSE reg_update_activity(reg, connection_id, t)
        log == <<UpdateEv(connection_id, "lastActivity", e.updFail),
                 SendEv(connection_id, "pong", e.sendRes[connection_id], NoData)>>
    IN  IF e.sendRes[connection_id] # "ok"
        THEN Raise(reg1, sto, log)      \* post_to_connection is not in a try
        ELSE Result(reg1, sto, 200, "Pong", None, log)

\* mutant: only the field 'cursor' is read
handle_load_more_messages_cursor_only(reg, sto, connection_id, body, e) ==
    LET channel_id == Get(body.channelId, "main")
        limit == IF body.limit = NoTime THEN HistoryLimit ELSE body.limit
        last_evaluated_key == body.cursor
        sender_info == get_connection_info(reg, connection_id, e)
    IN  IF ~sender_info.found
        THEN Result(reg, sto, 401, "Connection not found", None, <<>>)
        ELSE
        LET message_history == get_recent_messages(sto, channel_id, limit,
                                                   last_evaluated_key, e)
            log == <<SendEv(connection_id, "message_history_batch",
                            e.sendRes[connection_id],
                            Data(message_history.messages, message_history.hasMore,
                                 message_history.lastEvaluatedKey, channel_id, None))>>
        IN  IF ~Serializable(message_history.messages)
            THEN Result(reg, sto, 500, "Failed to load messages", None, <<>>)
            ELSE IF e.sendRes[connection_id] # "ok"
            THEN Result(reg, sto, 500, "Failed to load messages", None, log)
            ELSE Result(reg, sto, 200, "Loaded messages",
                        ToString(Len(message_history.messages)), log)

handle_load_more_messages(reg, sto, connection_id, body, e) ==
    LET channel_id == Get(body.channelId, "main")
        limit == IF body.limit = NoTime THEN HistoryLimit ELSE body.limit
        last_evaluated_key == Or(body.cursor, body.lastEvaluatedKey)
        sender_info == get_connection_info(reg, connection_id, e)
    IN  IF ~sender_info.found
        THEN Result(reg, sto, 401, "Connection not found", None, <<>>)
        ELSE
        LET message_history == get_recent_messages(sto, channel_id, limit,
                                                   last_evaluated_key, e)
            log == <<SendEv(connection_id, "message_history_batch",
                            e.sendRes[connection_id],
                            Data(message_history.messages, message_history.hasMore,
                                 message_history.lastEvaluatedKey, channel_id, None))>>
        IN  IF ~Serializable(message_history.messages)
            THEN Result(reg, sto, 500, "Failed to load messages", None, <<>>)
            ELSE IF e.sendRes[connection_id] # "ok"
            THEN Result(reg, sto, 500, "Failed to load messages", None, log)
            ELSE Result(reg, sto, 200, "Loaded messages",
                        ToString(Len(message_history.messages)), log)

\* mutant: no except clause
CaughtNothing(r) == r

\* the except clause of lambda_handler
Caught(r) ==
    IF r.raised
    THEN [r EXCEPT !.raised = FALSE, !.status = 500, !.tag = "Failed to process message"]
    ELSE r

\* mutant: an unknown action is handled as a message
DispatchDefaultMessage(reg, sto, connection_id, body, e, t, id) ==
    LET action == Get(body.action, "message")
    IN  CASE action = "join" -> handle_join_channel(reg, sto, connection_id, body, e, t)
          [] action = "leave" -> handle_leave_channel(reg, sto, connection_id, body, e)
          [] action = "typing" -> handle_typing_indicator(reg, sto, connection_id, body, e)
          [] action = "ping" -> handle_ping(reg, sto, connection_id, e, t)
          [] action = "load_more_messages" ->
                handle_load_more_messages(reg, sto, connection_id, body, e)
          [] OTHER -> handle_message(reg, sto, connection_id, body, e, t, id)

Dispatch(reg, sto, connection_id, body, e, t, id) ==
    LET action == Get(body.action, "message")
    IN  CASE action = "message" -> handle_message(reg, sto, connection_id, body, e, t, id)
          [] action = "join" -> handle_join_channel(reg, sto, connection_id, body, e, t)
          [] action = "leave" -> handle_leave_channel(reg, sto, connection_id, body, e)
          [] action = "typing" -> handle_typing_indicator(reg, sto, connection_id, body, e)
          [] action = "ping" -> handle_ping(reg, sto, connection_id, e, t)
          [] action = "load_more_messages" ->
                handle_load_more_messages(reg, sto, connection_id, body, e)
          [] OTHER -> Result(reg, sto, 400, "Unknown action", action, <<>>)

\* the router's lambda_handler: json.loads and body.get raise on a body that is
\* no JSON object
lambda_handler(reg, sto, connection_id, frame, e, t, id) ==
    Caught(IF frame.kind # "object" THEN Raise(reg, sto, <<>>)
           ELSE Dispatch(reg, sto, connection_id, frame, e, t, id))


\* connect/lambda_function.py: the authorizer context and the channel query parameter
UserOf(c) == "u" \o ToString(c)

\* mutant: the channel asked for at connect is ignored
connect_handler_main(reg, connection_id, channel, e, t) ==
    LET item == Item(UserOf(connection_id), "e" \o UserOf(connection_id), "user",
                     "main", t, t, "connected")
    IN  IF e.putFail
        THEN Result(reg, <<>>, 500, "Failed to connect", None,
                    <<UpdateEv(connection_id, "put", TRUE)>>)
        ELSE Result(reg_put_item(reg, connection_id, item), <<>>, 200,
                    "Connected successfully", ToString(connection_id),
                    <<UpdateEv(connection_id, "put", FALSE)>>)

\* connect/lambda_function.py
connect_handler(reg, connection_id, channel, e, t) ==
    LET channel_id == Get(channel, "main")
        item == Item(UserOf(connection_id), "e" \o UserOf(connection_id), "user",
                     channel_id, t, t, "connected")
    IN  IF e.putFail
        THEN Result(reg, <<>>, 500, "Failed to connect", None,
                    <<UpdateEv(connection_id, "put", TRUE)>>)
        ELSE Result(reg_put_item(reg, connection_id, item), <<>>, 200,
                    "Connected successfully", ToString(connection_id),
                    <<UpdateEv(connection_id, "put", FALSE)>>)

\* mutant: a failed delete_item is reported to the transport
disconnect_handler_failing(reg, connection_id, e) ==
    IF connection_id \in e.delFail
    THEN Result(reg, <<>>, 500, "Failed to disconnect", None,
                <<DeleteEv(connection_id, TRUE)>>)
    ELSE Result(reg_delete_item(reg, connection_id), <<>>, 200,
                "Disconnected successfully", None, <<DeleteEv(connection_id, FALSE)>>)

\* disconnect/lambda_function.py
disconnect_handler(reg, connection_id, e) ==
    IF connection_id \in e.delFail
    THEN Result(reg, <<>>, 200, "Disconnection processed", None,
                <<DeleteEv(connection_id, TRUE)>>)
    ELSE Result(reg_delete_item(reg, connection_id), <<>>, 200,
                "Disconnected successfully", None, <<DeleteEv(connection_id, FALSE)>>)

\* --------------------------------------------------- environments of an action
Bool == {TRUE, FALSE}

\* the elements of a sequence
Range(s) == {s[i] : i \in 1..Len(s)}

\* what the transport answers to each of the connections `to`, the order in which
\* the scan returns them, and the deletes of gone connections among `reap` that raise
EnvSends(to, reap) ==
    LET answers == {s \in [Conns -> Outcomes] :
                       \A x \in Conns : IF x \in to THEN s[x] \in SendOutcomes(x)
                                        ELSE s[x] = "ok"}
        orders == IF Cardinality(reap) > 1 THEN Perms ELSE {BaseEnv.order}
    IN  UNION {{[BaseEnv EXCEPT !.sendRes = s, !.order = o, !.delFail = d] :
                   o \in orders, d \in SUBSET {x \in reap : s[x] = "gone"}} :
               s \in answers}

\* the connections a scan of the channel returns from the registry reg
Members(reg, channel) == Range(get_channel_connections(reg, channel, BaseEnv))

\* handle_message: the lookup raises; or the scan raises; or the fan-out is reached
EnvMessage(c, channel) ==
    LET target == Get(channel, IF c \in DOMAIN registry
                               THEN Get(registry[c].channelId, "main") ELSE "main")
        to == Members(registry, target)
    IN  {[BaseEnv EXCEPT !.getFail = TRUE]}
        \cup (IF c \in DOMAIN registry
              THEN {[BaseEnv EXCEPT !.putFail = p, !.scanFail = TRUE] : p \in Bool}
                   \cup {[x EXCEPT !.putFail = p] : p \in Bool, x \in EnvSends(to, to)}
              ELSE {})

\* the notice fan-out of join, leave and typing, as the registry reg has it
EnvNotice(reg, c, channel) ==
    LET to == Members(reg, Get(channel, "main")) \ {c}
    IN  IF c \in DOMAIN reg
        THEN {[BaseEnv EXCEPT !.getFail = TRUE], [BaseEnv EXCEPT !.scanFail = TRUE]}
             \cup EnvSends(to, to)
        ELSE {BaseEnv}

\* the transport answers as the connections are: delivered to the open ones,
\* gone for the others
NominalEnv == [BaseEnv EXCEPT !.sendRes = [x \in Conns |-> IF sess[x] = "open" THEN "ok" ELSE "gone"]]

\* handle_join_channel: the update, then the lookup, the notices and the history;
\* or the query raises
EnvJoin(c, channel) ==
    UNION {UNION {IF x.getFail \/ (c \notin DOMAIN registry /\ u)
                  THEN {[x EXCEPT !.updFail = u]}
                  ELSE {[x EXCEPT !.updFail = u, !.sendRes[c] = r] :
                           r \in SendOutcomes(c)} :
                  x \in EnvNotice(IF u THEN registry
                                  ELSE reg_update_channel(registry, c,
                                                          Get(channel, "main"), now),
                                  c, channel)} :
           u \in Bool}
    \cup {[NominalEnv EXCEPT !.queryFail = TRUE]}

\* handle_join_channel when only the update or the lookup may raise
EnvJoinNominal(c) ==
    {[NominalEnv EXCEPT !.updFail = u, !.getFail = g] : u \in Bool, g \in Bool}

EnvPing(c) == {[BaseEnv EXCEPT !.updFail = u, !.sendRes[c] = r] :
                  u \in Bool, r \in SendOutcomes(c)}

EnvLoadMore(c) ==
    {[BaseEnv EXCEPT !.getFail = TRUE]}
    \cup (IF c \in DOMAIN registry
          THEN {[BaseEnv EXCEPT !.queryFail = q, !.lekAtEnd = l, !.sendRes[c] = r] :
                   q \in Bool, l \in Bool, r \in SendOutcomes(c)}
          ELSE {})

\* the calls of the invocation that raised and were caught or swallowed
Faults(e) ==
    [getFail |-> e.getFail, updFail |-> e.updFail, scanFail |-> e.scanFail,
     putFail |-> e.putFail, queryFail |-> e.queryFail]

\* ------------------------------------------------------ the webhook receiver
\* ambient-webhook-receiver.py.  A JSON value that is a number where the receiver
\* expects text is written NotText.
NotText == "<number>"

\* the body of a request once json.loads has read it: an object with the fields
\* the receiver looks at, or an array, or a number
Payload(alert_id, type, location, timestamp, severity, confidence) ==
    [kind |-> "object", alert_id |-> alert_id, type |-> type, location |-> location,
     timestamp |-> timestamp, severity |-> severity, confidence |-> confidence]

NoPayload == [Payload(None, None, None, None, None, None) EXCEPT !.kind = None]

\* event: body is "null" (no body), "badjson" or "json"; signature is None (no
\* x-ambient-signature header), "valid", "invalid", or "noheaders" (headers: null)
Request(body, signature, payload) ==
    [body |-> body, signature |-> signature, payload |-> payload]

ValidSeverities == {"low", "medium", "high", "critical"}

ValidTimestamps == {"2025-08-21T00:00:00Z"}

\* confidence values: the integer 1, the fractions 0.85 and 1.5, the text "0.85"
\* and the text "high"
Floats == {"0.85", "1.5"}

InUnitInterval == {"1", "0.85", "'0.85'"}

validate_webhook_signature_lenient(signature, secret) == TRUE

\* hmac.compare_digest of the header with sha256=<HMAC-SHA256 of the body>
validate_webhook_signature(signature, secret) ==
    IF signature = None \/ ~secret THEN FALSE ELSE signature = "valid"

RequiredFields == <<"alert_id", "type", "location", "timestamp", "severity">>

\* the errors validate_ambient_payload collects, in its order
Missing(payload) ==
    SelectSeq(RequiredFields, LAMBDA f : payload.kind # "object" \/ payload[f] = None)

FieldErrors(payload) ==
    IF payload.kind # "object" THEN <<>>
    ELSE (IF payload.severity # None /\ payload.severity \notin ValidSeverities
          THEN <<"Invalid severity">> ELSE <<>>)
         \o (IF payload.confidence = None \/ payload.confidence \in InUnitInterval
             THEN <<>>
             ELSE IF payload.confidence = "1.5"
             THEN <<"Confidence must be between 0.0 and 1.0">>
             ELSE <<"Confidence must be a number">>)
         \o (IF payload.timestamp = None \/ payload.timestamp \in ValidTimestamps
             THEN <<>>
             ELSE <<"Invalid timestamp format. Use ISO 8601">>)

\* validate_ambient_payload: "ok", "ValueError" with the errors, or "raised" for the
\* TypeError of `field in 5` and the AttributeError of 5.replace
validate_ambient_payload(payload) ==
    IF payload.kind = "number" THEN [result |-> "raised", errors |-> <<>>]
    ELSE IF payload.kind = "object" /\ payload.timestamp = NotText
    THEN [result |-> "raised", errors |-> <<>>]
    ELSE LET missing == Missing(payload)
             errors == [i \in 1..Len(missing) |-> "Missing required field: " \o missing[i]]
                       \o FieldErrors(payload)
         IN  [result |-> IF errors = <<>> THEN "ok" ELSE "ValueError", errors |-> errors]

severity_map(severity) == IF severity \in ValidSeverities THEN severity ELSE "medium"

type_map(type) ==
    CASE type = "tailgate" -> "TAILGATING"
      [] type = "slip_fall" -> "MEDICAL_EMERGENCY"
      [] type = "loitering" -> "SUSPICIOUS_BEHAVIOR"
      [] type = "violence" -> "SECURITY_THREAT"
      [] type = "weapon" -> "SECURITY_THREAT"
      [] type = "intrusion" -> "UNAUTHORIZED_ACCESS"
      [] OTHER -> "GENERAL_SECURITY"

\* map_ambient_to_activity; ambient_payload['type'].replace raises when the type is
\* not text
map_ambient_to_activity(ambient_payload) ==
    [id |-> "ambient_" \o ambient_payload.alert_id,
     ambient_alert_id |-> ambient_payload.alert_id,
     source |-> "AMBIENT",
     type |-> type_map(ambient_payload.type),
     priority |-> severity_map(ambient_payload.severity),
     status |-> "PENDING_APPROVAL",
     location |-> ambient_payload.location,
     timestamp |-> ambient_payload.timestamp,
     confidence_score |-> Get(ambient_payload.confidence, "0.0")]

\* boto3 refuses to write a Python float: put_item raises TypeError
Storable(activity) == activity.confidence_score \notin Floats \cup {"0.0"}

\* a call of the receiver to DynamoDB, EventBridge or SQS and whether it succeeded
HookCall(call, ok, arg, payload) ==
    [call |-> call, ok |-> ok, arg |-> arg, payload |-> payload]

\* store_activity: True when put_item did not raise
store_activity(activity, e) == ~e.storeFail /\ Storable(activity)

\* publish_to_eventbridge: True when put_events answered without a failed entry
publish_to_eventbridge(activity, e) == e.publish = "ok"

\* send_to_dlq: nothing without DLQ_URL, else one send_message whose failure is
\* swallowed
send_to_dlq(dlq, payload, error, e) ==
    IF ~dlq THEN <<>> ELSE <<HookCall("send_message", ~e.dlqFail, error, payload)>>

\* the response: 'error' or 'status' of the body, the validation errors that the
\* error text lists, 'activity_id'
Answer(status, error, errors, activity_id, calls) ==
    [status |-> status, error |-> error, errors |-> errors,
     activity_id |-> activity_id, calls |-> calls]

\* lambda_handler of the receiver: its response and its calls in order
\* the put_item call of store_activity
PutItem(activity, ok) == HookCall("put_item", ok, activity.id, NoPayload)

\* the put_events call of publish_to_eventbridge
PutEvents(activity, e) ==
    HookCall("put_events", publish_to_eventbridge(activity, e), activity.id, NoPayload)

StoreFailed_publishing(activity, payload, dlq, e) ==
    Answer(500, "Failed to store activity", <<>>, None,
           <<PutItem(activity, FALSE), PutEvents(activity, e)>>)

\* the branch of a failed store: dead-letter the payload, answer 500
StoreFailed(activity, payload, dlq, e) ==
    Answer(500, "Failed to store activity", <<>>, None,
           <<PutItem(activity, FALSE)>>
           \o send_to_dlq(dlq, payload, "Failed to store activity", e))

StoredThenPublished_strict(activity, e) ==
    IF publish_to_eventbridge(activity, e)
    THEN Answer(200, "success", <<>>, activity.id,
                <<PutItem(activity, TRUE), PutEvents(activity, e)>>)
    ELSE Answer(500, "Internal server error", <<>>, None,
                <<PutItem(activity, TRUE), PutEvents(activity, e)>>)

\* the branch of a successful store: publish, whose failure is only a warning,
\* and answer 200
StoredThenPublished(activity, e) ==
    Answer(200, "success", <<>>, activity.id,
           <<PutItem(activity, TRUE), PutEvents(activity, e)>>)

ambient_webhook_receiver(event, secret, dlq, e) ==
    IF event.body = "null"
    THEN Answer(500, "Internal server error", <<>>, None, <<>>)  \* json.loads(None)
    ELSE IF event.body = "badjson"
    THEN Answer(400, "Invalid JSON payload", <<>>, None, <<>>)
    ELSE
    LET payload == event.payload
        unexpected == Answer(500, "Internal server error", <<>>, None,
                             send_to_dlq(dlq, payload, "Unexpected error", e))
        validated == validate_ambient_payload(payload)
    IN  IF event.signature = "noheaders"                        \* None.get
        THEN unexpected
        ELSE IF secret /\ event.signature # None
                /\ ~validate_webhook_signature(event.signature, secret)
        THEN Answer(401, "Invalid signature", <<>>, None, <<>>)
        ELSE IF validated.result = "raised"
        THEN unexpected
        ELSE IF validated.result = "ValueError"
        THEN Answer(400, "Validation errors", validated.errors, None,
                    send_to_dlq(dlq, payload, "Validation errors", e))
        ELSE IF payload.type = NotText
        THEN unexpected
        ELSE
        LET activity == map_ambient_to_activity(payload)
            storage_success == store_activity(activity, e)
        IN  IF ~storage_success
            THEN StoreFailed(activity, payload, dlq, e)
            ELSE StoredThenPublished(activity, e)

\* ------------------------------------------------------------------ actions
\* the record of an invocation: the event, the tables as the invocation found
\* them, the calls that raised, the response and the calls in order
Record(op, c, frame, e, r) ==
    [op |-> op, conn |-> c, frame |-> frame, env |-> Faults(e),
     registry |-> registry, store |-> store, time |-> now,
     status |-> r.status, raised |-> r.raised, tag |-> r.tag, arg |-> r.arg,
     log |-> r.log]

Idle ==
    [op |-> "idle", conn |-> 0, frame |-> BadFrame(None), env |-> Faults(BaseEnv),
     registry |-> <<>>, store |-> <<>>, time |-> 0,
     status |-> 0, raised |-> FALSE, tag |-> None, arg |-> None, log |-> <<>>]

\* a client that pages through a channel: the messages the channel held when it
\* began, the pages it has received and the cursor of the last one; limits until
\* a call had a limit below 1, read until the store could not be read
IdlePager ==
    [phase |-> "idle", channel |-> None, began |-> {}, pages |-> <<>>,
     cursor |-> NoKey, limits |-> TRUE, read |-> TRUE]

\* the webhook receiver before its first request, with neither secret nor queue
IdleHook ==
    [secret |-> FALSE, dlq |-> FALSE, activities |-> <<>>, events |-> <<>>,
     queue |-> <<>>, requests |-> 0, status |-> 0, error |-> None, errors |-> <<>>,
     activity_id |-> None, calls |-> <<>>,
     event |-> Request(None, None, NoPayload), storeFail |-> FALSE]

\* an invocation in flight: where it is (pc), its handler, its connection, the
\* channel it addresses, the scanned connections it has still to send to, the
\* gone connections it has still to delete, those it saw gone, and its response
IdleProc ==
    [pc |-> "idle", kind |-> None, conn |-> 0, channel |-> None, scanned |-> <<>>,
     gone |-> <<>>, saw |-> {}, status |-> 0]

\* nothing in flight; base is the Registry as the first of the invocations that
\* overlap found it
NoFlight == [procs |-> [p \in 1..MaxFlights |-> IdleProc], base |-> <<>>]

NoJoin == [channelId |-> None, kept |-> FALSE, acked |-> None, written |-> None]

Init ==
    /\ registry = <<>>
    /\ store = <<>>
    /\ sess = [c \in Conns |-> "new"]
    /\ now = 0
    /\ nextId = 1
    /\ last = Idle
    /\ joined = [c \in Conns |-> NoJoin]
    /\ pager = IdlePager
    /\ hook = IdleHook
    /\ flight = NoFlight

\* the clock advances between invocations
Tick ==
    /\ last = Idle
    /\ now < MaxTime
    /\ now' = now + 1
    /\ UNCHANGED <<registry, store, sess, nextId, last, joined, pager, hook, flight>>

\* $connect: a connection id is assigned once, the ids in order; the transport
\* refuses the connection when the handler does not answer 200
Connect(c, channel, e) ==
    /\ sess[c] = "new"
    /\ \A x \in Conns : x < c => sess[x] # "new"
    /\ LET r == connect_handler(registry, c, channel, e, now)
       IN  /\ registry' = r.reg
           /\ sess' = IF r.status = 200 THEN [sess EXCEPT ![c] = "open"] ELSE sess
           /\ last' = Record("connect", c, Frame("connect", channel, None, NoTime, NoKey, NoKey), e, r)
    /\ UNCHANGED <<store, now, nextId, pager, hook, flight>>

\* $disconnect: the transport has closed the connection, now or a while ago
Disconnect(c, e) ==
    /\ sess[c] \in {"open", "closing"}
    /\ LET r == disconnect_handler(registry, c, e)
       IN  /\ registry' = r.reg
           /\ last' = Record("disconnect", c, Frame("disconnect", None, None, NoTime, NoKey, NoKey), e, r)
    /\ sess' = [sess EXCEPT ![c] = "closed"]
    /\ UNCHANGED <<store, now, nextId, pager, hook, flight>>

Appended(log) == \E i \in 1..Len(log) : log[i].t = "append"

\* $default: one frame of a connection the transport has accepted; a frame sent
\* before the connection closed may be routed after it
Route(c, frame, e) ==
    /\ sess[c] # "new"
    /\ LET r == lambda_handler(registry, store, c, frame, e, now, nextId)
       IN  /\ registry' = r.reg
           /\ store' = r.sto
           /\ nextId' = IF Appended(r.log) THEN nextId + 1 ELSE nextId
           /\ last' = Record("route", c, frame, e, r)
    /\ UNCHANGED <<sess, now, hook, flight>>

ChannelArgs == Channels \cup {None}

\* the cursors a client can hold: none, or the key of a stored message
Cursors == {NoKey} \cup DOMAIN store

\* message frames: with and without a channelId, a type, metadata and an action
MessageFrames ==
    {Frame("message", ch, None, NoTime, NoKey, NoKey) : ch \in ChannelArgs}
    \cup {Frame("message", None, "alert", NoTime, NoKey, NoKey),
          WithMetadata(Frame("message", None, None, NoTime, NoKey, NoKey), "integers"),
          Frame(None, None, None, NoTime, NoKey, NoKey)}

RouteMessage ==
    /\ last = Idle
    /\ nextId <= MaxMsgs
    /\ \E c \in Conns, f \in MessageFrames :
         \E e \in EnvMessage(c, f.channelId) : Route(c, f, e)
    /\ UNCHANGED <<joined, pager>>

RouteJoin ==
    /\ last = Idle
    /\ \E c \in Conns, ch \in ChannelArgs : \E e \in EnvJoin(c, ch) :
         Route(c, Frame("join", ch, None, NoTime, NoKey, NoKey), e)
    /\ UNCHANGED <<joined, pager>>

RouteLeave ==
    /\ last = Idle
    /\ \E c \in Conns, ch \in ChannelArgs : \E e \in EnvNotice(registry, c, ch) :
         Route(c, Frame("leave", ch, None, NoTime, NoKey, NoKey), e)
    /\ UNCHANGED <<joined, pager>>

RouteTyping ==
    /\ last = Idle
    /\ \E c \in Conns, ch \in ChannelArgs : \E e \in EnvNotice(registry, c, ch) :
         Route(c, Frame("typing", ch, None, NoTime, NoKey, NoKey), e)
    /\ UNCHANGED <<joined, pager>>

RoutePing ==
    /\ last = Idle
    /\ \E c \in Conns : \E e \in EnvPing(c) :
         Route(c, Frame("ping", None, None, NoTime, NoKey, NoKey), e)
    /\ UNCHANGED <<joined, pager>>

\* the first page of a channel with the default limit
RouteLoadMore ==
    /\ last = Idle
    /\ \E c \in Conns, ch \in ChannelArgs : \E e \in EnvLoadMore(c) :
         Route(c, Frame("load_more_messages", ch, None, NoTime, NoKey, NoKey), e)
    /\ UNCHANGED <<joined, pager>>

RouteUnknown ==
    /\ last = Idle
    /\ \E c \in Conns : Route(c, Frame("subscribe", None, None, NoTime, NoKey, NoKey), BaseEnv)
    /\ UNCHANGED <<joined, pager>>

RouteUndecodable ==
    /\ last = Idle
    /\ \E c \in Conns, k \in {"badjson", "nonobject"} : Route(c, BadFrame(k), BaseEnv)
    /\ UNCHANGED <<joined, pager>>

ConnectEvent ==
    /\ last = Idle
    /\ \E c \in Conns, ch \in ChannelArgs, f \in Bool :
          Connect(c, ch, [BaseEnv EXCEPT !.putFail = f])
    /\ UNCHANGED joined

DisconnectEvent ==
    /\ last = Idle
    /\ \E c \in Conns, f \in Bool :
          Disconnect(c, [BaseEnv EXCEPT !.delFail = IF f THEN {c} ELSE {}])
    /\ UNCHANGED joined

\* the handler's response has gone back to the transport; the transport hands
\* the next event to a new invocation
Return ==
    /\ last # Idle
    /\ last' = Idle
    /\ UNCHANGED <<registry, store, sess, now, nextId, joined, pager, hook, flight>>

\* the router, the registry and the dispatcher within one reading of the clock
Next ==
    \/ Return
    \/ ConnectEvent
    \/ DisconnectEvent
    \/ RouteMessage
    \/ RouteJoin
    \/ RouteLeave
    \/ RouteTyping
    \/ RoutePing
    \/ RouteLoadMore
    \/ RouteUnknown
    \/ RouteUndecodable

Spec == Init /\ [][Next]_vars


\* ------------------------------------------- joins followed to the next message
\* joined[c].channelId is the channel of the join last acknowledged to c and not
\* yet followed by a message of c; kept says that the update of that join did not
\* raise and that c's item has not been deleted since.  acked is the channel of the
\* join last acknowledged to c, or the channel of its connect; written is the
\* channel of the last put_item or update_item that wrote a channelId to c's item
\* as it is now.
Track(c, frame) ==
    joined' = [x \in Conns |->
        LET j == joined[x]
            isJoin == x = c /\ Get(frame.action, "message") = "join"
            acknowledged == last'.status = 200
            deleted == x \in DOMAIN registry /\ x \notin DOMAIN registry'
        IN  [channelId |-> IF isJoin
                           THEN IF acknowledged THEN last'.arg ELSE None
                           ELSE j.channelId,
             kept |-> IF isJoin THEN acknowledged /\ ~last'.env.updFail
                      ELSE j.kept /\ ~(x # c /\ deleted),
             acked |-> IF isJoin /\ acknowledged THEN last'.arg ELSE j.acked,
             written |-> IF isJoin /\ ~last'.env.updFail
                         THEN Get(frame.channelId, "main")
                         ELSE IF deleted THEN None ELSE j.written]]

ConnectTracked ==
    /\ last = Idle
    /\ \E c \in Conns, ch \in ChannelArgs, f \in Bool :
          /\ Connect(c, ch, [BaseEnv EXCEPT !.putFail = f])
          /\ joined' = IF f THEN joined
                       ELSE [joined EXCEPT ![c].acked = Get(ch, "main"),
                                           ![c].written = Get(ch, "main")]

JoinTracked ==
    /\ last = Idle
    /\ \E c \in Conns, ch \in ChannelArgs : \E e \in EnvJoinNominal(c) :
         LET f == Frame("join", ch, None, NoTime, NoKey, NoKey)
         IN  Route(c, f, e) /\ Track(c, f)
    /\ UNCHANGED pager

MessageTracked ==
    /\ last = Idle
    /\ nextId <= MaxMsgs
    /\ \E c \in Conns, ch \in ChannelArgs : \E e \in EnvMessage(c, ch) :
         LET f == Frame("message", ch, None, NoTime, NoKey, NoKey)
         IN  Route(c, f, e) /\ Track(c, f)
    /\ UNCHANGED pager

PingTracked ==
    /\ last = Idle
    /\ \E c \in Conns : \E e \in EnvPing(c) :
         LET f == Frame("ping", None, None, NoTime, NoKey, NoKey)
         IN  Route(c, f, e) /\ Track(c, f)
    /\ UNCHANGED pager

DisconnectTracked ==
    /\ last = Idle
    /\ \E c \in Conns, f \in Bool :
          /\ Disconnect(c, [BaseEnv EXCEPT !.delFail = IF f THEN {c} ELSE {}])
          /\ joined' = [joined EXCEPT ![c].kept = joined[c].kept /\ f,
                                       ![c].written = IF f THEN joined[c].written
                                                      ELSE None]
    /\ UNCHANGED pager

ReturnTracked ==
    /\ last # Idle
    /\ last' = Idle
    /\ joined' = IF last.op = "route" /\ Get(last.frame.action, "message") = "message"
                 THEN [joined EXCEPT ![last.conn].channelId = None,
                                     ![last.conn].kept = FALSE]
                 ELSE joined
    /\ UNCHANGED <<registry, store, sess, now, nextId, pager, hook, flight>>

NextJoin ==
    \/ ReturnTracked
    \/ ConnectTracked
    \/ DisconnectTracked
    \/ JoinTracked
    \/ MessageTracked
    \/ PingTracked

SpecJoin == Init /\ [][NextJoin]_vars

\* ------------------------------------------------- the registry under the clock
\* the peer goes away: sends to it report gone from now on, and the transport
\* invokes the $disconnect handler some time later
Close ==
    /\ last = Idle
    /\ \E c \in Conns :
          /\ sess[c] = "open"
          /\ sess' = [sess EXCEPT ![c] = "closing"]
    /\ UNCHANGED <<registry, store, now, nextId, last, joined, pager, hook, flight>>

JoinNominal ==
    /\ last = Idle
    /\ \E c \in Conns, ch \in ChannelArgs : \E e \in EnvJoinNominal(c) :
         Route(c, Frame("join", ch, None, NoTime, NoKey, NoKey), e)
    /\ UNCHANGED <<joined, pager>>

NextClock ==
    \/ Tick
    \/ Return
    \/ ConnectEvent
    \/ Close
    \/ DisconnectEvent
    \/ JoinNominal
    \/ RoutePing

SpecClock == Init /\ [][NextClock]_vars

\* -------------------------------------------------- paging through a channel
PageLimits == {NoTime, 0, 1, 2}

EnvPage ==
    {[NominalEnv EXCEPT !.queryFail = q, !.lekAtEnd = k, !.sendRes[1] = r] :
        q \in Bool, k \in Bool, r \in {"ok", "error"}}

InChannelStore(channel) == {store[k] : k \in {x \in DOMAIN store : x.channelId = channel}}

\* the client reads the message_history_batch it was sent: messages, hasMore and
\* lastEvaluatedKey; a batch that was not delivered leaves it where it was
Turn(p, limit, e, log) ==
    IF log = <<>> \/ log[1].res # "ok" THEN p
    ELSE [p EXCEPT !.phase = IF log[1].data.hasMore THEN "paging" ELSE "done",
                   !.pages = Append(@, log[1].data.messages),
                   !.cursor = log[1].data.lastEvaluatedKey,
                   !.limits = @ /\ (IF limit = NoTime THEN HistoryLimit ELSE limit) >= 1,
                   !.read = @ /\ ~e.queryFail]

PagingConnect ==
    /\ last = Idle
    /\ Connect(1, "main", BaseEnv)
    /\ UNCHANGED joined

PostMessage ==
    /\ last = Idle
    /\ nextId <= MaxStored
    /\ \E ch \in Channels, f \in Bool :
         Route(1, Frame("message", ch, None, NoTime, NoKey, NoKey),
               [NominalEnv EXCEPT !.putFail = f])
    /\ UNCHANGED <<joined, pager>>

PagerStart ==
    /\ last = Idle
    /\ pager.phase = "idle"
    /\ \E l \in PageLimits : \E e \in EnvPage :
         /\ Route(1, Frame("load_more_messages", "main", None, l, NoKey, NoKey), e)
         /\ pager' = Turn([pager EXCEPT !.channel = "main",
                                        !.began = InChannelStore("main")],
                          l, e, last'.log)
    /\ UNCHANGED joined

\* the next call carries the key of the last batch, as cursor or as lastEvaluatedKey
PagerNext ==
    /\ last = Idle
    /\ pager.phase = "paging"
    /\ \E l \in PageLimits, asCursor \in Bool : \E e \in EnvPage :
         /\ Route(1, Frame("load_more_messages", pager.channel, None, l,
                           IF asCursor THEN pager.cursor ELSE NoKey,
                           IF asCursor THEN NoKey ELSE pager.cursor), e)
         /\ pager' = Turn(pager, l, e, last'.log)
    /\ UNCHANGED joined

NextPaging ==
    \/ Tick
    \/ Return
    \/ PagingConnect
    \/ PostMessage
    \/ PagerStart
    \/ PagerNext

SpecPaging == Init /\ [][NextPaging]_vars

\* ------------------------------------------------ a channel of three or more
\* one connection more than Conns, so that a broadcast that skips its sender
\* still has two recipients
Crowd == 1..(NumConns + 1)

CrowdOrders ==
    {p \in [1..(NumConns + 1) -> Crowd] : \A i, j \in 1..(NumConns + 1) : p[i] = p[j] => i = j}

\* nothing raises; the scan returns the items in any order and the transport
\* answers as the connections are
CrowdEnvs ==
    {[BaseEnv EXCEPT !.order = o,
                     !.sendRes = [x \in Crowd |-> IF sess[x] = "open" THEN "ok" ELSE "gone"]] :
        o \in CrowdOrders}

InitCrowd ==
    /\ registry = <<>>
    /\ store = <<>>
    /\ sess = [c \in Crowd |-> "new"]
    /\ now = 0
    /\ nextId = 1
    /\ last = Idle
    /\ joined = [c \in Conns |-> NoJoin]
    /\ pager = IdlePager
    /\ hook = IdleHook
    /\ flight = NoFlight

CrowdConnect ==
    /\ last = Idle
    /\ \E c \in Crowd, ch \in Channels :
          /\ \A x \in Crowd : x < c => sess[x] # "new"
          /\ Connect(c, ch, BaseEnv)
    /\ UNCHANGED joined

CrowdClose ==
    /\ last = Idle
    /\ \E c \in Crowd :
          /\ sess[c] = "open"
          /\ sess' = [sess EXCEPT ![c] = "closing"]
    /\ UNCHANGED <<registry, store, now, nextId, last, joined, pager, hook, flight>>

CrowdNotice ==
    /\ last = Idle
    /\ \E c \in Crowd, action \in {"join", "leave", "typing"}, ch \in Channels :
         \E e \in CrowdEnvs :
            Route(c, Frame(action, ch, None, NoTime, NoKey, NoKey), e)
    /\ UNCHANGED <<joined, pager>>

CrowdMessage ==
    /\ last = Idle
    /\ nextId <= MaxMsgs
    /\ \E c \in Crowd : \E e \in CrowdEnvs :
          Route(c, Frame("message", None, None, NoTime, NoKey, NoKey), e)
    /\ UNCHANGED <<joined, pager>>

NextCrowd ==
    \/ Return
    \/ CrowdConnect
    \/ CrowdClose
    \/ CrowdNotice
    \/ CrowdMessage

SpecCrowd == InitCrowd /\ [][NextCrowd]_vars

\* ------------------------------------------- every action under the clock
\* the six actions of the router with nothing failing, between ticks of the clock
ActivityFrames ==
    {Frame(a, ch, None, NoTime, NoKey, NoKey) :
        a \in {"join", "leave", "typing", "ping", "load_more_messages"},
        ch \in {None, "main"}}

ActivityConnect ==
    /\ last = Idle
    /\ \E c \in Conns : Connect(c, None, BaseEnv)
    /\ UNCHANGED joined

ActivityRoute ==
    /\ last = Idle
    /\ \E c \in Conns, f \in ActivityFrames : Route(c, f, NominalEnv)
    /\ UNCHANGED <<joined, pager>>

ActivityMessage ==
    /\ last = Idle
    /\ nextId <= MaxMsgs
    /\ \E c \in Conns : Route(c, Frame("message", None, None, NoTime, NoKey, NoKey), NominalEnv)
    /\ UNCHANGED <<joined, pager>>

NextActivity ==
    \/ Tick
    \/ Return
    \/ ActivityConnect
    \/ ActivityRoute
    \/ ActivityMessage

SpecActivity == Init /\ [][NextActivity]_vars

\* ------------------------------------------------ invocations that overlap
\* Each invocation is a Lambda of its own; the calls it makes to the tables and
\* to the transport are the atomic steps, and the calls of the invocations in
\* flight interleave in every order.  Frames carry no channelId; nothing raises
\* but what the state of the Registry and of the peers makes raise.  MaxFlights
\* invocations are followed, each from its first call to its return.
Flights == 1..MaxFlights

Proc(p) == flight.procs[p]

At(p, kind, pc) == last = Idle /\ Proc(p).kind \in kind /\ Proc(p).pc = pc

\* the invocation p goes on as r
Goes(p, r) == flight' = [flight EXCEPT !.procs[p] = r]

\* the invocation p returns status
Ends(p, status) == Goes(p, [Proc(p) EXCEPT !.pc = "done", !.status = status])

RaceConnect ==
    /\ last = Idle
    /\ \A p \in Flights : Proc(p).pc = "idle"
    /\ \E c \in Crowd :
          /\ \A x \in Crowd : x < c => sess[x] # "new"
          /\ Connect(c, None, BaseEnv)
    /\ UNCHANGED joined

\* the transport hands a frame of an open connection, or the $disconnect of a
\* connection that has closed or closes now, to a new invocation
RaceBegin ==
    /\ last = Idle
    /\ \E p \in Flights, c \in Crowd,
          kind \in {"message", "typing", "join", "ping", "disconnect"} :
          /\ Proc(p).pc = "idle"
          /\ \A q \in Flights : q < p => Proc(q).pc # "idle"
          /\ IF kind = "disconnect"
             THEN sess[c] \in {"open", "closing"} /\ sess' = [sess EXCEPT ![c] = "closed"]
             ELSE sess[c] = "open" /\ sess' = sess
          /\ kind = "message" =>
                /\ nextId <= MaxMsgs
                /\ \A q \in Flights : Proc(q).kind # "message"
          /\ flight' = [procs |-> [flight.procs EXCEPT
                                      ![p] = [IdleProc EXCEPT !.pc = "begin", !.kind = kind,
                                                              !.conn = c]],
                        base |-> IF \A q \in Flights : Proc(q).pc = "idle"
                                 THEN registry ELSE flight.base]
    /\ UNCHANGED <<registry, store, now, nextId, last, joined, pager, hook>>

\* get_connection_info of handle_message, handle_typing_indicator and, after its
\* update, handle_join_channel
RaceLookup ==
    \E p \in Flights :
       /\ \/ At(p, {"message", "typing"}, "begin")
          \/ At(p, {"join"}, "lookup")
       /\ LET sender_info == get_connection_info(registry, Proc(p).conn, BaseEnv)
          IN  IF ~sender_info.found
              THEN Ends(p, IF Proc(p).kind = "message" THEN 401 ELSE 500)
              ELSE Goes(p, [Proc(p) EXCEPT
                              !.pc = IF Proc(p).kind = "message" THEN "put" ELSE "scan",
                              !.channel = IF Proc(p).kind = "message"
                                          THEN Get(sender_info.item.channelId, "main")
                                          ELSE "main"])
       /\ UNCHANGED <<registry, store, sess, now, nextId, last, joined, pager, hook>>

\* update_item of handle_join_channel and handle_ping
RaceUpdate ==
    \E p \in Flights :
       /\ At(p, {"join", "ping"}, "begin")
       /\ registry' = IF Proc(p).kind = "join"
                      THEN reg_update_channel(registry, Proc(p).conn, "main", now)
                      ELSE reg_update_activity(registry, Proc(p).conn, now)
       /\ Goes(p, [Proc(p) EXCEPT !.pc = IF Proc(p).kind = "join" THEN "lookup" ELSE "pong"])
       /\ UNCHANGED <<store, sess, now, nextId, last, joined, pager, hook>>

\* delete_item of the disconnect handler
RaceDisconnect ==
    \E p \in Flights :
       /\ At(p, {"disconnect"}, "begin")
       /\ registry' = reg_delete_item(registry, Proc(p).conn)
       /\ Ends(p, 200)
       /\ UNCHANGED <<store, sess, now, nextId, last, joined, pager, hook>>

\* put_item of handle_message
RacePut ==
    \E p \in Flights :
       /\ At(p, {"message"}, "put")
       /\ store' = store_put_item(store,
                      [messageId |-> nextId, channelId |-> Proc(p).channel,
                       senderId |-> UserOf(Proc(p).conn),
                       senderEmail |-> "e" \o UserOf(Proc(p).conn),
                       senderRole |-> "user", type |-> "text", timestamp |-> now,
                       metadata |-> "strings"])
       /\ nextId' = nextId + 1
       /\ Goes(p, [Proc(p) EXCEPT !.pc = "scan"])
       /\ UNCHANGED <<registry, sess, now, last, joined, pager, hook>>

\* the scan of get_channel_connections; the loop of broadcast_to_channel skips
\* the sender
RaceScan ==
    \E p \in Flights :
       /\ At(p, {"message", "typing", "join"}, "scan")
       /\ LET connections == get_channel_connections(registry, Proc(p).channel, BaseEnv)
          IN  Goes(p, [Proc(p) EXCEPT
                         !.pc = "send",
                         !.scanned = IF Proc(p).kind = "message" THEN connections
                                     ELSE SelectSeq(connections,
                                                    LAMBDA c : c # Proc(p).conn)])
       /\ UNCHANGED <<registry, store, sess, now, nextId, last, joined, pager, hook>>

\* post_to_connection to the next recipient: GoneException when the peer has gone
RaceSend ==
    \E p \in Flights :
       /\ At(p, {"message", "typing", "join"}, "send")
       /\ IF Proc(p).scanned = <<>>
          THEN IF Proc(p).kind = "message" THEN Goes(p, [Proc(p) EXCEPT !.pc = "reap"])
               ELSE IF Proc(p).kind = "join" THEN Goes(p, [Proc(p) EXCEPT !.pc = "history"])
               ELSE Ends(p, 200)
          ELSE LET conn_id == Head(Proc(p).scanned)
               IN  IF sess[conn_id] = "open"
                   THEN Goes(p, [Proc(p) EXCEPT !.scanned = Tail(@)])
                   ELSE IF Proc(p).kind = "message"
                   THEN Goes(p, [Proc(p) EXCEPT !.scanned = Tail(@),
                                                !.gone = Append(@, conn_id),
                                                !.saw = @ \cup {conn_id}])
                   ELSE Goes(p, [Proc(p) EXCEPT !.pc = "delete",
                                                !.saw = @ \cup {conn_id}])
       /\ UNCHANGED <<registry, store, sess, now, nextId, last, joined, pager, hook>>

\* delete_item in the except clause of broadcast_to_channel
RaceDelete ==
    \E p \in Flights :
       /\ At(p, {"typing", "join"}, "delete")
       /\ registry' = reg_delete_item(registry, Head(Proc(p).scanned))
       /\ Goes(p, [Proc(p) EXCEPT !.pc = "send", !.scanned = Tail(@)])
       /\ UNCHANGED <<store, sess, now, nextId, last, joined, pager, hook>>

\* the clean-up loop of handle_message over failed_connections
RaceReap ==
    \E p \in Flights :
       /\ At(p, {"message"}, "reap")
       /\ IF Proc(p).gone = <<>>
          THEN Ends(p, 200) /\ registry' = registry
          ELSE /\ registry' = reg_delete_item(registry, Head(Proc(p).gone))
               /\ Goes(p, [Proc(p) EXCEPT !.gone = Tail(@)])
       /\ UNCHANGED <<store, sess, now, nextId, last, joined, pager, hook>>

\* the history of handle_join_channel: read and sent inside a try
RaceHistory ==
    \E p \in Flights :
       /\ At(p, {"join"}, "history")
       /\ Ends(p, 200)
       /\ UNCHANGED <<registry, store, sess, now, nextId, last, joined, pager, hook>>

\* the pong of handle_ping: not in a try, a gone sender is a 500
RacePong ==
    \E p \in Flights :
       /\ At(p, {"ping"}, "pong")
       /\ Ends(p, IF sess[Proc(p).conn] = "open" THEN 200 ELSE 500)
       /\ UNCHANGED <<registry, store, sess, now, nextId, last, joined, pager, hook>>

\* every invocation has returned
Landed ==
    /\ \A p \in Flights : Proc(p).pc \in {"idle", "done"}
    /\ \E p \in Flights : Proc(p).pc = "done"

NextRace ==
    \/ Return
    \/ RaceConnect
    \/ CrowdClose
    \/ RaceBegin
    \/ RaceLookup
    \/ RaceUpdate
    \/ RaceDisconnect
    \/ RacePut
    \/ RaceScan
    \/ RaceSend
    \/ RaceDelete
    \/ RaceReap
    \/ RaceHistory
    \/ RacePong

SpecRace == InitCrowd /\ [][NextRace]_vars

\* ------------------------------------------------------- webhook requests
GoodPayload == Payload("a1", "tailgate", "lobby", "2025-08-21T00:00:00Z", "high", "1")

\* payloads: the good one and the ones that differ from it in one field, one with
\* two invalid fields, an array and a number
AmbientPayloads ==
    {[GoodPayload EXCEPT !.alert_id = x] : x \in {"a1", "a2", None}}
    \cup {[GoodPayload EXCEPT !.type = x] : x \in {"smoke", None, NotText}}
    \cup {[GoodPayload EXCEPT !.location = None]}
    \cup {[GoodPayload EXCEPT !.timestamp = x] : x \in {None, "yesterday", NotText}}
    \cup {[GoodPayload EXCEPT !.severity = x] : x \in {None, "low", "urgent"}}
    \cup {[GoodPayload EXCEPT !.confidence = x] :
             x \in {None, "0.85", "1.5", "'0.85'", "high"}}
    \cup {[GoodPayload EXCEPT !.severity = "urgent", !.timestamp = "yesterday"],
          [NoPayload EXCEPT !.kind = "array"], [NoPayload EXCEPT !.kind = "number"]}

Signatures == {None, "valid", "invalid", "noheaders"}

\* every payload unsigned, the good one and two bad ones under every signature,
\* and the bodies that are not JSON
Requests ==
    {Request("json", None, p) : p \in AmbientPayloads}
    \cup {Request("json", sig, p) :
             sig \in Signatures,
             p \in {GoodPayload, [GoodPayload EXCEPT !.severity = "urgent"],
                    [GoodPayload EXCEPT !.confidence = "0.85"]}}
    \cup {Request(b, sig, NoPayload) :
             b \in {"null", "badjson"}, sig \in {None, "valid", "invalid"}}

\* put_item raises or not; put_events answers, reports a failed entry or raises;
\* send_message raises or not
HookEnvs ==
    {[storeFail |-> s, publish |-> p, dlqFail |-> d] :
        s \in Bool, p \in {"ok", "failed", "raised"}, d \in Bool}
    \ {e \in [storeFail : Bool, publish : {"ok", "failed", "raised"}, dlqFail : Bool] :
          e.publish # "ok" /\ (e.storeFail \/ e.dlqFail)}

\* the deployment: with or without AMBIENT_API_KEY, with or without DLQ_URL
InitWebhook ==
    /\ registry = <<>>
    /\ store = <<>>
    /\ sess = [c \in Conns |-> "new"]
    /\ now = 0
    /\ nextId = 1
    /\ last = Idle
    /\ joined = [c \in Conns |-> NoJoin]
    /\ pager = IdlePager
    /\ hook \in {[IdleHook EXCEPT !.secret = s, !.dlq = d] : s \in Bool, d \in Bool}
    /\ flight = NoFlight

\* one request: the tables, the bus and the queue take what the calls that
\* succeeded wrote
Webhook ==
    /\ hook.requests < MaxRequests
    /\ \E event \in Requests, e \in HookEnvs :
         LET a == ambient_webhook_receiver(event, hook.secret, hook.dlq, e)
             did(call) == {i \in 1..Len(a.calls) : a.calls[i].call = call /\ a.calls[i].ok}
             activity == map_ambient_to_activity(event.payload)
         IN  hook' = [hook EXCEPT
                !.requests = @ + 1,
                !.activities = IF did("put_item") = {} THEN @
                               ELSE [k \in DOMAIN @ \cup {activity.id} |->
                                        IF k = activity.id THEN activity ELSE @[k]],
                !.events = IF did("put_events") = {} THEN @ ELSE Append(@, activity),
                !.queue = IF did("send_message") = {} THEN @
                          ELSE Append(@, event.payload),
                !.status = a.status, !.error = a.error, !.errors = a.errors,
                !.activity_id = a.activity_id, !.calls = a.calls,
                !.event = event, !.storeFail = e.storeFail]
    /\ UNCHANGED <<registry, store, sess, now, nextId, last, joined, pager, flight>>

NextWebhook == Webhook

SpecWebhook == InitWebhook /\ [][NextWebhook]_vars

\* ---------------------------------------------- what the last invocation did
Action == Get(last.frame.action, "message")

\* the last invocation routed a decoded frame of this action
Routed(action) == last.op = "route" /\ last.frame.kind = "object" /\ Action = action

Sender == last.conn

\* the sender's lookup found its item
Resolvable == Sender \in DOMAIN last.registry /\ ~last.env.getFail

Calls(t) == {i \in 1..Len(last.log) : last.log[i].t = t}

\* the connections a payload of this kind was sent to, whatever the outcome
SentTo(kind) == {last.log[i].to : i \in {j \in Calls("send") : last.log[j].kind = kind}}

\* the connections the transport reported gone for a payload of this kind
GoneFor(kind) ==
    {last.log[i].to : i \in {j \in Calls("send") : /\ last.log[j].kind = kind
                                                   /\ last.log[j].res = "gone"}}

\* the deletes of the invocation that raised
DeleteFailed == {last.log[i].to : i \in {j \in Calls("delete") : last.log[j].res = "error"}}

\* the items of the registry the invocation found with this channelId
MembersBefore(channel) ==
    {c \in DOMAIN last.registry : last.registry[c].channelId = channel}

Untouched == registry = last.registry /\ store = last.store

Broadcasts == {"message", "user_joined", "user_left", "typing"}

\* ------------------------------------------------------------------ C1
\* the channel a message frame addresses: its own channelId, else the sender's
TargetChannel ==
    Get(last.frame.channelId, Get(last.registry[Sender].channelId, "main"))

\* C1 as stated: a message of a resolvable sender is sent to exactly the
\* connections whose channelId is the sender's channelId, whatever the frame carries
C1_SenderChannelOnly ==
    (Routed("message") /\ Resolvable) =>
        SentTo("message") = MembersBefore(last.registry[Sender].channelId)

\* C1 amended: a message of a resolvable sender is sent to exactly the connections
\* whose channelId is the target channel when the broadcast reads the registry (the
\* frame's channelId if it has one, else the sender's, "main" if the sender's item
\* has none), and to nobody when the scan raises
C1_TargetChannelOnly ==
    (Routed("message") /\ Resolvable) =>
        SentTo("message") = IF last.env.scanFail THEN {} ELSE MembersBefore(TargetChannel)

\* a frame that names a channel other than the sender's, with members in both
C1_Witness ==
    /\ Routed("message") /\ Resolvable /\ ~last.env.scanFail
    /\ last.frame.channelId # None
    /\ last.frame.channelId # last.registry[Sender].channelId
    /\ SentTo("message") # {}
    /\ Sender \notin SentTo("message")

\* ------------------------------------------------------------------ C5
\* C5 as stated: a connection reported gone during a broadcast is absent from the
\* registry once the broadcast is over
C5_GoneIsRemoved ==
    last.op = "route" =>
        \A kind \in Broadcasts : \A g \in GoneFor(kind) : g \notin DOMAIN registry

\* C5 amended: a connection reported gone during a broadcast is absent from the
\* registry and from the scan of every channel once the broadcast is over, unless
\* its delete raised; and an id without an item gets one only by a connect, a join
\* or a ping of that id
C5_GoneIsRemovedUnlessDeleteFails ==
    /\ last.op = "route" =>
          \A kind \in Broadcasts : \A g \in GoneFor(kind) \ DeleteFailed :
              /\ g \notin DOMAIN registry
              /\ \A ch \in Channels : g \notin Members(registry, ch)
    /\ last.op # "idle" =>
          \A g \in DOMAIN registry \ DOMAIN last.registry :
              /\ g = Sender
              /\ last.op = "connect" \/ Routed("join") \/ Routed("ping")

\* a broadcast met a gone connection and deleted it
C5_Witness ==
    /\ last.op = "route"
    /\ \E kind \in Broadcasts : \E g \in GoneFor(kind) :
          g \in DOMAIN last.registry /\ g \notin DOMAIN registry

\* ------------------------------------------------------------------ C6
\* C6: every routed frame is answered 200, 400, 401 or 500 and no exception leaves
\* the router; what no handler catches (a failed pong, a sender without an item in
\* join, leave or typing, an undecodable body) is answered the generic 500
C6_RouteIsTotal ==
    last.op = "route" =>
        /\ ~last.raised
        /\ last.status \in {200, 400, 401, 500}
        /\ (\/ last.frame.kind # "object"
            \/ Routed("ping") /\ \E i \in Calls("send") : last.log[i].res # "ok"
            \/ (Routed("leave") \/ Routed("typing")) /\ ~Resolvable)
           => last.status = 500 /\ last.tag = "Failed to process message"

\* the pong of a ping could not be delivered
C6_Witness ==
    /\ Routed("ping") /\ last.status = 500
    /\ \E i \in Calls("send") : last.log[i].res = "gone"

\* ------------------------------------------------------------------ C7
\* C7: message and load_more_messages of a sender the lookup does not find are
\* answered 401; nothing is stored, no item changes and nothing is sent
C7_UnresolvedIsUnauthorized ==
    ((Routed("message") \/ Routed("load_more_messages")) /\ ~Resolvable) =>
        /\ last.status = 401
        /\ Untouched
        /\ last.log = <<>>

\* load_more_messages of a closed connection whose item is gone, with messages stored
C7_Witness ==
    /\ Routed("load_more_messages") /\ Sender \notin DOMAIN last.registry
    /\ last.status = 401
    /\ store # <<>>

\* ------------------------------------------------------------------ C8
KnownActions == {"message", "join", "leave", "typing", "ping", "load_more_messages"}

\* C8: a frame with an unknown action is answered 400 naming the action; the
\* registry and the store stay as they were and nothing is sent
C8_UnknownActionIsClientError ==
    (last.op = "route" /\ last.frame.kind = "object" /\ Action \notin KnownActions) =>
        /\ last.status = 400
        /\ last.tag = "Unknown action" /\ last.arg = Action
        /\ Untouched
        /\ last.log = <<>>

C8_Witness ==
    /\ last.op = "route" /\ last.frame.kind = "object" /\ Action \notin KnownActions
    /\ last.status = 400
    /\ registry # <<>>

\* ------------------------------------------------------------------ C9
\* C9 as stated: a body that is no JSON object is answered 400 and changes nothing
C9_UndecodableIsClientError ==
    (last.op = "route" /\ last.frame.kind # "object") =>
        last.status = 400 /\ Untouched


\* ------------------------------------------------------------------ C3
JoinedChannel == joined[Sender].channelId

Appends == {last.log[i].data : i \in Calls("append")}

Persisted(channel) ==
    \E k \in DOMAIN store :
        /\ store[k].channelId = channel
        /\ ToString(store[k].messageId) = last.arg

\* the next message of a connection after a join it was acknowledged, without a
\* channelId of its own
NextAfterJoin ==
    Routed("message") /\ last.frame.channelId = None /\ JoinedChannel # None

\* C3 as stated, for a message whose own handling meets no failure of the registry
\* or the store: it is persisted with the channel of the join and broadcast to the
\* members of that channel
C3_NextMessageUsesJoinedChannel ==
    (NextAfterJoin /\ Resolvable /\ ~last.env.putFail /\ ~last.env.scanFail) =>
        /\ Persisted(JoinedChannel)
        /\ SentTo("message") = MembersBefore(JoinedChannel)

\* C3 amended: when the update of the join did not raise, the item has not been
\* deleted since and the lookup finds it, the message is built with the channel of
\* the join, is stored with it unless the store write raises, and is sent to the
\* members of that channel and to nobody else (to nobody when the scan raises)
C3_NextMessageUsesJoinedChannelIfUpdated ==
    (NextAfterJoin /\ joined[Sender].kept /\ Resolvable) =>
        /\ last.status = 200
        /\ Appends # {} /\ \A d \in Appends : d.channelId = JoinedChannel
        /\ ~last.env.putFail => Persisted(JoinedChannel)
        /\ SentTo("message") =
              IF last.env.scanFail THEN {} ELSE MembersBefore(JoinedChannel)

\* after a join from "main" to "ops": stored with "ops", delivered to another member
\* of "ops"
C3_Witness ==
    /\ NextAfterJoin /\ joined[Sender].kept /\ Resolvable
    /\ JoinedChannel = "ops"
    /\ last.registry[Sender].connectedAt # NoTime
    /\ Persisted("ops")
    /\ \E x \in SentTo("message") : x # Sender

\* ------------------------------------------------------------------ C10
ItemBefore(c) == IF c \in DOMAIN last.registry THEN last.registry[c] ELSE EmptyItem

\* C10: a ping stores no message; its only send is one pong to the sender; no item
\* of another connection appears, disappears or changes, and the sender's item
\* differs from what it was in lastActivity at most
C10_PingTouchesOnlyLastActivity ==
    Routed("ping") =>
        /\ store = last.store
        /\ Calls("append") = {} /\ Calls("delete") = {}
        /\ Cardinality(Calls("send")) = 1
        /\ \A i \in Calls("send") : last.log[i].to = Sender /\ last.log[i].kind = "pong"
        /\ \A x \in Conns \ {Sender} :
              /\ x \in DOMAIN registry <=> x \in DOMAIN last.registry
              /\ x \in DOMAIN registry => registry[x] = last.registry[x]
        /\ Sender \in DOMAIN last.registry => Sender \in DOMAIN registry
        /\ Sender \in DOMAIN registry =>
              [registry[Sender] EXCEPT !.lastActivity = ItemBefore(Sender).lastActivity]
                  = ItemBefore(Sender)

\* a ping that moved the sender's lastActivity while another connection has an item
C10_Witness ==
    /\ Routed("ping") /\ last.status = 200
    /\ Sender \in DOMAIN last.registry
    /\ registry[Sender].lastActivity # last.registry[Sender].lastActivity
    /\ registry[Sender].channelId = "ops"
    /\ DOMAIN registry # {Sender}

\* ------------------------------------------------------------------ C2
Stored == Cardinality(DOMAIN store)

StoredBefore == Cardinality(DOMAIN last.store)

\* a message action of a resolvable sender that was answered 200 with a messageId
Acknowledged ==
    Routed("message") /\ Resolvable /\ last.status = 200 /\ last.arg # None

\* C2 as stated: the store has grown by exactly one message
C2_AcknowledgedAddsOne == Acknowledged => Stored = StoredBefore + 1

\* C2 amended: the invocation makes exactly one write of one message; no other
\* stored message changes; the store grows by one when the write does not raise
\* and no stored message has the channelId and timestamp of the new one, and
\* keeps its size otherwise
C2_AcknowledgedWritesOnce ==
    Acknowledged =>
        /\ Cardinality(Calls("append")) = 1
        /\ \A m \in Appends :
              /\ ToString(m.messages[1].messageId) = last.arg
              /\ \A k \in DOMAIN last.store :
                    k # MessageKey(m.messages[1]) => k \in DOMAIN store /\ store[k] = last.store[k]
              /\ ~last.env.putFail =>
                    /\ MessageKey(m.messages[1]) \in DOMAIN store
                    /\ store[MessageKey(m.messages[1])] = m.messages[1]
              /\ Stored = StoredBefore +
                    (IF last.env.putFail \/ MessageKey(m.messages[1]) \in DOMAIN last.store
                     THEN 0 ELSE 1)

\* a message stored under a new key next to the messages already there
C2_Witness ==
    /\ Acknowledged /\ ~last.env.putFail
    /\ StoredBefore = 2 /\ Stored = 3

\* ------------------------------------------------------------------ C4
Pages == pager.pages

Seen == UNION {Range(Pages[i]) : i \in 1..Len(Pages)}

StrictlyOlder ==
    \A i \in 2..Len(Pages) :
        \A a \in Range(Pages[i]), b \in Range(Pages[i - 1]) : a.timestamp < b.timestamp

NoDuplicate ==
    \A i, j \in 1..Len(Pages) : \A a \in 1..Len(Pages[i]), b \in 1..Len(Pages[j]) :
        Pages[i][a].messageId = Pages[j][b].messageId => i = j /\ a = b

NoGap == pager.phase = "done" => pager.began \subseteq Seen

\* C4 as stated, while the store can be read: for every limit, the pages are
\* strictly older one after the other, repeat no message and, once hasMore is
\* false, have skipped no message the channel held when the paging began
C4_PagesOlderUniqueComplete == pager.read => StrictlyOlder /\ NoDuplicate /\ NoGap

\* C4 amended: the same, as long as every call had a limit of at least 1 and a
\* store read that did not raise
C4_PagesOlderUniqueCompleteIfRead ==
    (pager.read /\ pager.limits) => StrictlyOlder /\ NoDuplicate /\ NoGap

\* a channel of two messages read to the end in more than one non-empty page, with
\* a message appended to the channel after the paging began
C4_Witness ==
    /\ pager.phase = "done" /\ pager.read /\ pager.limits
    /\ Cardinality(pager.began) = 2
    /\ \E i, j \in 1..Len(Pages) : i # j /\ Pages[i] # <<>> /\ Pages[j] # <<>>
    /\ InChannelStore("main") \ pager.began # {}
    /\ Seen = pager.began

\* ------------------------------------------------------------------ C11
\* a message action of a resolvable sender whose store write raised
WriteFailed == Routed("message") /\ Resolvable /\ last.env.putFail

\* C11 as stated: the sender is answered 200 with the messageId and a send is
\* attempted to every member of the target channel
C11_WriteFailureKeepsBroadcast ==
    WriteFailed =>
        /\ last.status = 200 /\ last.arg # None
        /\ SentTo("message") = MembersBefore(TargetChannel)

\* C11 amended: the sender is answered 200 with the messageId and a send is
\* attempted to every member of the target channel that the scan returns: to all
\* of them when the scan succeeds, to nobody when the scan raises as well
C11_WriteFailureKeepsBroadcastOfScan ==
    WriteFailed =>
        /\ last.status = 200 /\ last.arg # None /\ ~last.raised
        /\ store = last.store
        /\ SentTo("message") =
              IF last.env.scanFail THEN {} ELSE MembersBefore(TargetChannel)

\* the write raised and the message still went to two members of the channel
C11_Witness ==
    /\ WriteFailed /\ ~last.env.scanFail
    /\ last.status = 200
    /\ Cardinality(SentTo("message")) = 2

\* ------------------------------------------------------------------ C12
\* C12 as stated: the channelId of every item is the channel of the last join that
\* was acknowledged to the connection, the channel of its connect if there was none
C12_ChannelIsLastAcknowledgedJoin ==
    \A c \in DOMAIN registry : registry[c].channelId = joined[c].acked

\* C12 amended: the channelId of every item is the channel of the last write that
\* did not raise, the put_item of connect or the update_item of a join, whether that
\* join was then acknowledged or not, and an item made by a ping has none; and an
\* acknowledged join whose update did not raise leaves the sender's item in its channel
C12_ChannelIsLastWrittenJoin ==
    /\ \A c \in DOMAIN registry : registry[c].channelId = joined[c].written
    /\ (Routed("join") /\ last.status = 200 /\ ~last.env.updFail) =>
          /\ Sender \in DOMAIN registry
          /\ registry[Sender].channelId = last.arg
          /\ last.tag = "Joined channel"

\* a join acknowledged to a connection that was in another channel, next to a
\* connection that stays where its own join put it
C12_Witness ==
    /\ Routed("join") /\ last.status = 200 /\ ~last.env.updFail
    /\ last.registry[Sender].channelId = "main"
    /\ registry[Sender].channelId = "ops"
    /\ \E c \in DOMAIN registry \ {Sender} :
          /\ joined[c].acked = "ops"
          /\ registry[c].channelId = "ops"
          /\ registry[c].connectedAt # NoTime

\* ------------------------------------------------------------------ C13
\* the messages of a channel as the invocation found them, oldest first, the
\* HistoryLimit newest at most
RecentBefore(channel) ==
    LET keys == Take(Descending({k \in DOMAIN last.store : k.channelId = channel}),
                     HistoryLimit)
    IN  Reverse([i \in 1..Len(keys) |-> last.store[keys[i]]])

Histories == {i \in Calls("send") : last.log[i].kind = "message_history"}

\* C13, for a join that is acknowledged and whose store read does not raise: one
\* message_history is sent, to the sender, and it holds the most recent messages of
\* the channel, oldest first
C13_JoinSendsHistoryToSender ==
    (Routed("join") /\ last.status = 200 /\ ~last.env.queryFail) =>
        /\ Cardinality(Histories) = 1
        /\ \A i \in Histories :
              /\ last.log[i].to = Sender
              /\ last.log[i].data.messages = RecentBefore(last.arg)

\* ------------------------------------------------------------------ C14
Notices == {"user_joined", "user_left", "typing"}

NoticeOf(action) ==
    CASE action = "join" -> "user_joined"
      [] action = "leave" -> "user_left"
      [] action = "typing" -> "typing"

\* the channel a join, leave or typing frame addresses
NoticeChannel == Get(last.frame.channelId, "main")

\* a join, leave or typing action that was acknowledged
Noticed == (Routed("join") \/ Routed("leave") \/ Routed("typing")) /\ last.status = 200

\* C14 as stated: the notice is sent to every member of the target channel but the
\* sender, and never to the sender
C14_NoticeToAllButSender ==
    Noticed => SentTo(NoticeOf(Action)) = MembersBefore(NoticeChannel) \ {Sender}

\* C14 amended: no notice of any kind is sent to the sender, whatever the outcome
\* of the action; an acknowledged action sends its notice to every other member of
\* the target channel when the scan succeeds and to nobody when the scan raises
C14_NoticeToAllScannedButSender ==
    /\ last.op = "route" => \A kind \in Notices : Sender \notin SentTo(kind)
    /\ Noticed =>
          /\ SentTo(NoticeOf(Action)) =
                IF last.env.scanFail THEN {}
                ELSE MembersBefore(NoticeChannel) \ {Sender}
          /\ \A kind \in Notices \ {NoticeOf(Action)} : SentTo(kind) = {}

\* the sender is a member of the channel its frame names, next to another member
\* that is sent the notice
C14_Witness ==
    /\ Noticed /\ Action = "typing"
    /\ last.frame.channelId = "ops"
    /\ Sender \in MembersBefore("ops")
    /\ SentTo("typing") # {}
    /\ SentTo("typing") = MembersBefore("ops") \ {Sender}

\* ------------------------------------------------------------------ C15
\* the message the invocation built
Built == {d.messages[1] : d \in Appends}

\* the payloads of the message sends
Payloads == {last.log[i].data : i \in {j \in Calls("send") : last.log[j].kind = "message"}}

\* a message action of a resolvable sender whose frame or whose item names a channel
Addressed ==
    /\ Routed("message") /\ Resolvable
    /\ last.frame.channelId # None \/ last.registry[Sender].channelId # None

\* C15 as stated: the message has the channelId of the frame, else that of the
\* sender's item, and the type of the frame, else "text"; it is sent to every
\* connection of that channel, the sender included
C15_TargetIsFrameElseSender ==
    Addressed =>
        /\ Built # {}
        /\ \A m \in Built : /\ m.channelId = TargetChannel
                            /\ m.type = Get(last.frame.type, "text")
        /\ SentTo("message") = MembersBefore(TargetChannel)
        /\ \A d \in Payloads : d.messages[1] \in Built

\* C15 amended: the same, with "main" as the channel when neither the frame nor the
\* sender's item has one, and with nobody sent the message when the scan raises
C15_TargetIsFrameElseSenderElseMain ==
    (Routed("message") /\ Resolvable) =>
        /\ Cardinality(Built) = 1
        /\ \A m \in Built : /\ m.channelId = TargetChannel
                            /\ m.type = Get(last.frame.type, "text")
                            /\ ~last.env.putFail =>
                                  /\ MessageKey(m) \in DOMAIN store
                                  /\ store[MessageKey(m)] = m
        /\ SentTo("message") =
              IF last.env.scanFail THEN {} ELSE MembersBefore(TargetChannel)
        /\ \A d \in Payloads : d.messages[1] \in Built

\* a frame without channelId and type: the message is stored as "text" in the
\* sender's channel and sent to the sender and to the other member
C15_Witness ==
    /\ Addressed /\ last.frame.channelId = None /\ last.frame.type = None
    /\ last.registry[Sender].channelId = "ops"
    /\ Sender \in SentTo("message")
    /\ Cardinality(SentTo("message")) = 2
    /\ \E k \in DOMAIN store : store[k].channelId = "ops" /\ store[k].type = "text"

\* ------------------------------------------------------------------ C16
\* the broadcast an invocation starts: its payload, the channel it addresses and the
\* connection it excludes (0: none)
Started ==
    IF Routed("message") /\ Resolvable
    THEN {[kind |-> "message", channel |-> TargetChannel, exclude |-> 0]}
    ELSE IF Noticed
    THEN {[kind |-> NoticeOf(Action), channel |-> NoticeChannel, exclude |-> Sender]}
    ELSE {}

Attempts(kind, c) ==
    {i \in Calls("send") : last.log[i].kind = kind /\ last.log[i].to = c}

\* C17: in one invocation a broadcast payload is sent to a connection at most once,
\* whatever the outcome of the send
C17_AtMostOnce ==
    last.op = "route" =>
        \A kind \in Broadcasts, c \in Conns : Cardinality(Attempts(kind, c)) <= 1

\* a fan-out to two recipients, one gone and one failing otherwise, each tried once
C17_Witness ==
    /\ Routed("message")
    /\ \E c, d \in Conns :
          /\ \E i \in Attempts("message", c) : last.log[i].res = "gone"
          /\ \E i \in Attempts("message", d) : last.log[i].res = "error"
    /\ Cardinality(Calls("send")) = 2

\* ------------------------------------------------------------------ C18
\* C18: the disconnect handler answers 200 and raises nothing, whether the delete
\* raised or not and whether the connection had an item or not; when the delete
\* did not raise the connection has no item afterwards; no other item changes
C18_DisconnectAlwaysSucceeds ==
    last.op = "disconnect" =>
        /\ last.status = 200 /\ ~last.raised
        /\ Cardinality(Calls("delete")) = 1
        /\ DeleteFailed = {} => Sender \notin DOMAIN registry
        /\ DeleteFailed # {} => registry = last.registry
        /\ \A c \in DOMAIN last.registry \ {Sender} :
              c \in DOMAIN registry /\ registry[c] = last.registry[c]

\* the delete raised, the item is still there, and the transport was told 200
C18_Witness ==
    /\ last.op = "disconnect" /\ last.status = 200
    /\ DeleteFailed = {Sender}
    /\ Sender \in DOMAIN registry
    /\ DOMAIN registry # {Sender}

\* ------------------------------------------------------------------ C19
\* the calls of the last webhook request to one service
CallsTo(call) == {i \in 1..Len(hook.calls) : hook.calls[i].call = call}

\* the last webhook request wrote its activity to the store
StoredActivity == \E i \in CallsTo("put_item") : hook.calls[i].ok

\* C19: the webhook handler answers 200 with status 'success' and the activity id
\* exactly when the mapped activity was stored; on that path there is exactly one
\* write to the store followed by exactly one attempted publish to the event bus,
\* the write first, and the answer is 200 whether or not the publish succeeded.
C19_SuccessIffStoredThenPublishedOnce ==
    hook.requests > 0 =>
        /\ (hook.status = 200) <=> StoredActivity
        /\ hook.status = 200 =>
             LET activity == map_ambient_to_activity(hook.event.payload)
             IN  /\ hook.error = "success"
                 /\ hook.activity_id = activity.id
                 /\ Len(hook.calls) = 2
                 /\ hook.calls[1] = PutItem(activity, TRUE)
                 /\ hook.calls[2].call = "put_events"
                 /\ hook.calls[2].arg = activity.id
                 /\ activity.id \in DOMAIN hook.activities
                 /\ hook.activities[activity.id] = activity

\* C19 witness: a request answered 200 whose activity was stored and whose
\* publish to the event bus failed
C19_Witness ==
    /\ hook.status = 200
    /\ StoredActivity
    /\ Len(hook.calls) = 2
    /\ hook.calls[2].call = "put_events"
    /\ ~hook.calls[2].ok

\* ------------------------------------------------------------------ C20
\* the last webhook request tried to store its activity and failed
StoreFailure == \E i \in CallsTo("put_item") : ~hook.calls[i].ok

\* C20: when storing the activity fails the webhook handler answers 500 with the
\* error 'Failed to store activity', makes one send of the original payload to
\* the dead-letter queue if one is configured (none otherwise), and makes no
\* publish to the event bus.
C20_StoreFailureDeadLettersNeverPublishes ==
    StoreFailure =>
        /\ hook.status = 500
        /\ hook.error = "Failed to store activity"
        /\ hook.activity_id = None
        /\ CallsTo("put_events") = {}
        /\ Cardinality(CallsTo("send_message")) = IF hook.dlq THEN 1 ELSE 0
        /\ \A i \in CallsTo("send_message") :
              /\ hook.calls[i].payload = hook.event.payload
              /\ hook.calls[i].ok =>
                    /\ Len(hook.queue) > 0
                    /\ hook.queue[Len(hook.queue)] = hook.event.payload

\* C20 witness: the write of a valid payload raised, a dead-letter queue is
\* configured and took the payload
C20_Witness ==
    /\ StoreFailure
    /\ hook.storeFail
    /\ hook.dlq
    /\ hook.status = 500
    /\ \E i \in CallsTo("send_message") : hook.calls[i].ok

\* ------------------------------------------------------------------ C21
\* the last webhook request got as far as the validation of its payload
ReachedValidation ==
    /\ hook.requests > 0
    /\ hook.event.body = "json"
    /\ hook.event.signature # "noheaders"
    /\ ~(hook.secret /\ hook.event.signature = "invalid")

\* what is wrong with a payload: the required fields it lacks and the severity,
\* confidence and timestamp that are not valid
Violations(payload) ==
    {"Missing required field: " \o RequiredFields[i] :
        i \in {j \in 1..Len(RequiredFields) : payload[RequiredFields[j]] = None}}
    \cup (IF payload.severity \in ValidSeverities \cup {None} THEN {}
          ELSE {"Invalid severity"})
    \cup (IF payload.confidence \in InUnitInterval \cup {None} THEN {}
          ELSE IF payload.confidence = "1.5"
          THEN {"Confidence must be between 0.0 and 1.0"}
          ELSE {"Confidence must be a number"})
    \cup (IF payload.timestamp \in ValidTimestamps \cup {None} THEN {}
          ELSE {"Invalid timestamp format. Use ISO 8601"})

\* C21: a payload that fails validation (a required field missing, or an invalid
\* severity, confidence or timestamp) is answered 400 with an error that names
\* every violation, is sent once to the dead-letter queue if one is configured,
\* and is neither stored nor published.
C21_InvalidPayloadIs400 ==
    (ReachedValidation /\ hook.event.payload.kind = "object"
        /\ Violations(hook.event.payload) # {}) =>
        /\ hook.status = 400
        /\ hook.error = "Validation errors"
        /\ {hook.errors[i] : i \in 1..Len(hook.errors)} = Violations(hook.event.payload)
        /\ CallsTo("put_item") = {}
        /\ CallsTo("put_events") = {}
        /\ Cardinality(CallsTo("send_message")) = IF hook.dlq THEN 1 ELSE 0
        /\ \A i \in CallsTo("send_message") : hook.calls[i].payload = hook.event.payload

\* ------------------------------------------------------------------ C22
\* C22 as stated: every request whose signature header does not match under the
\* configured secret is answered 401 'Invalid signature' without a store write,
\* a publish or a dead-letter send, and the signature check is false without a
\* signature or without a secret.
C22_BadSignatureIs401 ==
    /\ (hook.requests > 0 /\ hook.secret /\ hook.event.signature = "invalid") =>
          /\ hook.status = 401
          /\ hook.error = "Invalid signature"
          /\ hook.calls = <<>>
    /\ \A sig \in Signatures, secret \in Bool :
          (sig = None \/ ~secret) => ~validate_webhook_signature(sig, secret)

\* C22 amended: a request with a JSON body whose signature header does not match
\* is answered 401 'Invalid signature'; a body that is not JSON is answered 400
\* and an absent body 500 before the signature is looked at; in all three cases
\* there is no store write, no publish and no dead-letter send; the signature
\* check is false without a signature or without a secret.
C22_BadSignatureOfJsonIs401 ==
    /\ (hook.requests > 0 /\ hook.secret /\ hook.event.signature = "invalid") =>
          /\ hook.calls = <<>>
          /\ hook.activity_id = None
          /\ hook.event.body = "json" =>
                hook.status = 401 /\ hook.error = "Invalid signature"
          /\ hook.event.body = "badjson" =>
                hook.status = 400 /\ hook.error = "Invalid JSON payload"
          /\ hook.event.body = "null" =>
                hook.status = 500 /\ hook.error = "Internal server error"
    /\ \A sig \in Signatures, secret \in Bool :
          (sig = None \/ ~secret) => ~validate_webhook_signature(sig, secret)

\* C22 witness: a valid payload under a signature that does not match, with a
\* secret and a dead-letter queue configured, answered 401
C22_Witness ==
    /\ hook.secret
    /\ hook.dlq
    /\ hook.event = Request("json", "invalid", GoodPayload)
    /\ hook.status = 401
    /\ hook.calls = <<>>

\* ------------------------------------------------------------------ C23
\* the sends of a broadcast payload that the last invocation made
BroadcastSends == {i \in Calls("send") : last.log[i].kind \in Broadcasts}

\* C23: in every broadcast (the message fan-out and the notice fan-out of join,
\* leave and typing) the gone connections are deleted only after the send to the
\* last recipient: no delete of the invocation precedes one of its broadcast sends.
C23_DeletesAfterLastSend ==
    last.op = "route" =>
        \A d \in Calls("delete"), i \in BroadcastSends : i < d

\* ------------------------------------------------------------------ C24
\* C24: a record enters the Registry only through the connect event: no routed
\* frame of a connection id that has no record gives that id a record.
C24_OnlyConnectCreates ==
    last.op = "route" =>
        \A c \in Conns : c \notin DOMAIN last.registry => c \notin DOMAIN registry

\* ------------------------------------------------------------------ C25
\* the records the last invocation removed
Removed == DOMAIN last.registry \ DOMAIN registry

\* the connections a send of the last invocation reported gone
ReportedGone == {last.log[i].to : i \in {j \in Calls("send") : last.log[j].res = "gone"}}

\* C25: a routed frame removes a record only if a send to that connection in the
\* same invocation reported gone; a send that failed otherwise, a send that
\* succeeded and a connection that was sent nothing never lose their record.
C25_RemovedOnlyIfGone ==
    last.op = "route" => Removed \subseteq ReportedGone

\* C25 witness: a broadcast removed a gone recipient while a recipient whose send
\* failed with another error kept its record
C25_Witness ==
    /\ last.op = "route"
    /\ Removed # {}
    /\ \E i \in Calls("send") :
          /\ last.log[i].res = "error"
          /\ last.log[i].to \in DOMAIN registry
          /\ last.log[i].kind \in Broadcasts

\* ------------------------------------------------------------------ C26
\* the fields of an item that connect copies from the authorization context
Identity(item) ==
    <<item.userId, item.userEmail, item.userRole, item.connectedAt>>

\* the item is the one the connect event of c writes at time t
WrittenAtConnect(item, c, t) ==
    Identity(item) = <<UserOf(c), "e" \o UserOf(c), "user", t>>

\* the records that are there before and after a step keep their identity
IdentityKept ==
    \A c \in DOMAIN registry \cap DOMAIN registry' :
        Identity(registry'[c]) = Identity(registry[c])

\* C26: userId, userEmail, userRole and connectedAt of every record are the
\* values its connect event wrote, for as long as the record exists: a record
\* appears only with the values of a connect event, and no step changes them.
C26_IdentityIsConnectTime ==
    [][/\ IdentityKept
       /\ \A c \in DOMAIN registry' \ DOMAIN registry :
             /\ last'.op = "connect"
             /\ WrittenAtConnect(registry'[c], c, now)]_vars

\* ------------------------------------------------------------------ C27
\* C27: every action (message, join, leave, typing, ping, load_more_messages) of a
\* connection that has a record, handled without a failure of the Registry,
\* leaves the time of the action in that connection's lastActivity.
C27_EveryActionTouchesLastActivity ==
    (/\ last.op = "route" /\ last.frame.kind = "object"
     /\ Action \in KnownActions
     /\ Sender \in DOMAIN last.registry
     /\ ~last.env.getFail /\ ~last.env.updFail /\ ~last.env.scanFail) =>
        /\ Sender \in DOMAIN registry
        /\ registry[Sender].lastActivity = last.time

\* ------------------------------------------------------------------ C28
\* C28: stored messages are immutable and never lost: a message that is in the
\* Store is there with the same fields after every step, two messages of one
\* channel with the same timestamp included.
C28_StoredForever ==
    [][\A k \in DOMAIN store : k \in DOMAIN store' /\ store'[k] = store[k]]_vars

\* ------------------------------------------------------------------ C29
\* the histories the last invocation sent: message_history and message_history_batch
HistoryData ==
    {last.log[i].data :
        i \in {j \in Calls("send") :
                  last.log[j].kind \in {"message_history", "message_history_batch"}}}

\* the channel held, when the invocation began, a message older than the oldest
\* message of the page (pages are oldest first)
OlderThanPage(d) ==
    \E k \in DOMAIN last.store :
        k.channelId = d.channelId /\ k.timestamp < d.messages[1].timestamp

\* C29: the hasMore of every history is true exactly when the channel still holds
\* messages older than the oldest message of the page, so it is false when the
\* page ends at the oldest message of the channel, and false when the store read
\* fails.
C29_HasMoreIffOlderRemain ==
    last.op = "route" =>
        \A d \in HistoryData :
            /\ d.messages # <<>> => (d.hasMore <=> OlderThanPage(d))
            /\ last.env.queryFail => ~d.hasMore

\* ------------------------------------------------------------------ C30
\* the actions whose frame names the channel they are about
ChannelActions == {"join", "leave", "typing", "load_more_messages"}

\* C30: a join, leave, typing or load_more_messages frame without channelId is
\* answered with the client error (400) and leaves the Registry and the Store as
\* they were.
C30_MissingChannelIsClientError ==
    (/\ last.op = "route" /\ last.frame.kind = "object"
     /\ Action \in ChannelActions
     /\ last.frame.channelId = None) =>
        /\ last.status = 400
        /\ Untouched

\* C30 amended: such a frame is never answered 400; it is handled as a frame for
\* the channel "main": a join whose update succeeds moves the sender to "main",
\* the notices go to members of "main" other than the sender, the history is
\* that of "main", and the acknowledgement of join and leave names "main".
C30_MissingChannelIsMain ==
    (/\ last.op = "route" /\ last.frame.kind = "object"
     /\ Action \in ChannelActions
     /\ last.frame.channelId = None) =>
        /\ last.status # 400
        /\ store = last.store
        /\ (Action = "join" /\ ~last.env.updFail) =>
              Sender \in DOMAIN registry /\ registry[Sender].channelId = "main"
        /\ (Action # "join" \/ last.env.updFail) =>
              \A c \in DOMAIN registry : registry[c] = last.registry[c]
        /\ \A i \in BroadcastSends :
              last.log[i].to \in MembersBefore("main") \ {Sender}
        /\ \A d \in HistoryData : d.channelId = "main"
        /\ (last.status = 200 /\ Action \in {"join", "leave"}) => last.arg = "main"

\* C30 witness: a join frame without channelId of a connection of "ops" is
\* acknowledged and has moved the connection to "main"
C30_Witness ==
    /\ Routed("join")
    /\ last.frame.channelId = None
    /\ last.status = 200
    /\ last.registry[Sender].channelId = "ops"
    /\ registry[Sender].channelId = "main"

\* ------------------------------------------------------------------ C31
\* C31: leave and typing store nothing: no message is appended, the Store is as
\* it was, every record that is left is as it was (the sender's, with its
\* channelId, among them), and the records that are gone are those of
\* recipients that reported gone.
C31_LeaveTypingStoreNothing ==
    (Routed("leave") \/ Routed("typing")) =>
        /\ store = last.store
        /\ Calls("append") = {} /\ Calls("update") = {}
        /\ DOMAIN registry \subseteq DOMAIN last.registry
        /\ \A c \in DOMAIN registry \cap DOMAIN last.registry :
              registry[c] = last.registry[c]
        /\ Removed \subseteq ReportedGone \ {Sender}

\* C31 witness: an acknowledged leave of a member of the channel it names removed
\* a gone recipient and left the sender in that channel
C31_Witness ==
    /\ Routed("leave")
    /\ last.status = 200
    /\ Removed # {}
    /\ Sender \in DOMAIN registry
    /\ last.frame.channelId # None
    /\ registry[Sender].channelId = last.frame.channelId

\* ------------------------------------------------------------------ C32
\* the pongs the last invocation sent
Pongs == {i \in Calls("send") : last.log[i].kind = "pong"}

\* C32: a join or ping whose Registry update raises goes on as when it succeeds:
\* the ping sends its pong and is answered 200 when the pong is delivered; the
\* join of a sender the lookup finds notifies the members of the channel but the
\* sender, sends the history to the sender and is answered 200; the sender's
\* record is as it was before the action.
C32_UpdateFailureNotPropagated ==
    (/\ last.op = "route" /\ last.frame.kind = "object"
     /\ Action \in {"join", "ping"}
     /\ last.env.updFail
     /\ Sender \in DOMAIN last.registry) =>
        /\ Sender \in DOMAIN registry
        /\ registry[Sender] = last.registry[Sender]
        /\ Action = "ping" =>
              /\ Cardinality(Pongs) = 1
              /\ \A i \in Pongs :
                    /\ last.log[i].to = Sender
                    /\ last.log[i].res = "ok" => (last.status = 200 /\ last.tag = "Pong")
        /\ (Action = "join" /\ ~last.env.getFail) =>
              LET channel == Get(last.frame.channelId, "main")
              IN  /\ last.status = 200
                  /\ last.tag = "Joined channel"
                  /\ last.arg = channel
                  /\ SentTo("user_joined") =
                        IF last.env.scanFail THEN {}
                        ELSE MembersBefore(channel) \ {Sender}
                  /\ Serializable(RecentBefore(channel)) =>
                        /\ Cardinality(Histories) = 1
                        /\ \A i \in Histories :
                              /\ last.log[i].to = Sender
                              /\ last.log[i].data.messages =
                                    IF last.env.queryFail THEN <<>>
                                    ELSE RecentBefore(channel)

\* C32 witness: a join whose update raised is acknowledged, has notified another
\* member of the channel and has sent the sender a history with a message in it
C32_Witness ==
    /\ Routed("join")
    /\ last.env.updFail
    /\ last.status = 200
    /\ SentTo("user_joined") # {}
    /\ \E i \in Histories : last.log[i].data.messages # <<>>
    /\ Sender \in DOMAIN registry
    /\ registry[Sender] = last.registry[Sender]

\* ------------------------------------------------------------------ C33
\* the connections an invocation in flight saw gone, and those whose $disconnect ran
SeenGone == UNION {Proc(p).saw : p \in Flights}

Disconnected == {Proc(p).conn : p \in {q \in Flights : Proc(q).kind = "disconnect"}}

\* the invocations are broadcasts of connections that are still open, and disconnects
Reaping ==
    \A p \in Flights :
        \/ Proc(p).kind \in {None, "disconnect"}
        \/ Proc(p).kind \in {"message", "typing"} /\ sess[Proc(p).conn] = "open"

C34_DisconnectIsFinal ==
    Landed =>
        \A c \in Disconnected :
            /\ c \notin DOMAIN registry
            /\ \A ch \in Channels : c \notin Members(registry, ch)

\* ------------------------------------------------------------------ C35
\* C35: a connect event whose put_item succeeds returns 200 and leaves one record
\* for the connection id: userId, userEmail and userRole of the authorizer, status
\* 'connected', channelId the channel asked for or 'main'; a connect event whose
\* put_item fails returns 500 'Failed to connect' and leaves no record for the id.
\* The other records are as they were.
C35_ConnectOutcome ==
    last.op = "connect" =>
        /\ \A c \in DOMAIN last.registry \ {Sender} :
              c \in DOMAIN registry /\ registry[c] = last.registry[c]
        /\ DOMAIN registry \subseteq DOMAIN last.registry \cup {Sender}
        /\ IF last.env.putFail
           THEN /\ last.status = 500 /\ last.tag = "Failed to connect"
                /\ Sender \notin DOMAIN registry
           ELSE /\ last.status = 200
                /\ Sender \in DOMAIN registry
                /\ registry[Sender].userId = UserOf(Sender)
                /\ registry[Sender].userEmail = "e" \o UserOf(Sender)
                /\ registry[Sender].userRole = "user"
                /\ registry[Sender].status = "connected"
                /\ registry[Sender].channelId = Get(last.frame.channelId, "main")

\* C35 witness: a second connection has connected asking for channel 'ops'
C35_Witness ==
    /\ last.op = "connect" /\ ~last.env.putFail
    /\ last.frame.channelId = "ops"
    /\ last.registry # <<>>
    /\ Sender \in DOMAIN registry

\* C35 witness of the failure: the put_item of a connect event failed
C35_WitnessFailed ==
    last.op = "connect" /\ last.env.putFail /\ last.status = 500

\* ------------------------------------------------------------------ C36
LoadMore(channel, limit, cursor, key) ==
    Frame("load_more_messages", channel, None, limit, cursor, key)

\* the messages of a page are the newest `limit` messages of the channel, oldest first
NewestPage(messages, channel, limit) ==
    LET held == {k \in DOMAIN last.store : k.channelId = channel}
        page == {MessageKey(messages[i]) : i \in 1..Len(messages)}
    IN  /\ Len(messages) = IF Cardinality(held) < limit THEN Cardinality(held) ELSE limit
        /\ page \subseteq held
        /\ \A i \in 1..Len(messages) : messages[i] = last.store[MessageKey(messages[i])]
        /\ \A i, j \in 1..Len(messages) :
              i < j => messages[i].timestamp < messages[j].timestamp
        /\ \A k \in held \ page, x \in page : k.timestamp < x.timestamp

\* C36: from the same Registry and Store, for every channel, limit and key k, the
\* load_more_messages frame that carries k as cursor and the one that carries k as
\* lastEvaluatedKey are answered alike (status, message_history_batch with its
\* messages, hasMore and lastEvaluatedKey); a frame that carries neither is sent
\* the newest page of the channel (the empty page when the read raises).
C36_CursorNamesEquivalent ==
    /\ \A c \in Conns, ch \in ChannelArgs, l \in PageLimits, k \in Cursors, e \in EnvPage :
          handle_load_more_messages(registry, store, c, LoadMore(ch, l, k, NoKey), e)
            = handle_load_more_messages(registry, store, c, LoadMore(ch, l, NoKey, k), e)
    /\ (/\ Routed("load_more_messages")
        /\ last.frame.cursor = NoKey /\ last.frame.lastEvaluatedKey = NoKey) =>
          \A d \in HistoryData :
              IF last.env.queryFail \/ last.frame.limit = 0
              THEN d.messages = <<>> /\ ~d.hasMore
              ELSE NewestPage(d.messages, Get(last.frame.channelId, "main"),
                              IF last.frame.limit = NoTime THEN HistoryLimit
                              ELSE last.frame.limit)

\* C36 witness: a frame that carried the key of the page before as lastEvaluatedKey
\* has been answered with the page of the older message, in a channel of three
C36_Witness ==
    /\ Routed("load_more_messages")
    /\ last.frame.cursor = NoKey /\ last.frame.lastEvaluatedKey # NoKey
    /\ Cardinality({k \in DOMAIN last.store : k.channelId = "main"}) = 3
    /\ \E d \in HistoryData :
          /\ d.messages # <<>>
          /\ d.messages[Len(d.messages)].timestamp < last.frame.lastEvaluatedKey.timestamp

\* C36 witness of the first page: a frame with neither field got the newest page
C36_WitnessNewest ==
    /\ Routed("load_more_messages")
    /\ last.frame.cursor = NoKey /\ last.frame.lastEvaluatedKey = NoKey
    /\ \E d \in HistoryData : Len(d.messages) = 2 /\ d.hasMore

\* ------------------------------------------------------------------ C37
\* C37: with a webhook secret configured, a request reaches the activities table
\* or the event bus only if it carries a valid x-ambient-signature: a request
\* with a signature that does not match, or with no signature header, makes no
\* put_item and no put_events.
C37_SecretIsEnforced ==
    (hook.requests > 0 /\ hook.secret) =>
        (CallsTo("put_item") \cup CallsTo("put_events") # {} =>
            hook.event.signature = "valid")

\* ------------------------------------------------------------------ C38
\* C38: a message_history_batch with messages of a channel is sent only to a
\* connection whose Registry record has that channel as its channelId: a
\* registered connection of another channel is not sent the history.
C38_HistoryOnlyToMembers ==
    Routed("load_more_messages") =>
        \A d \in HistoryData :
            d.messages # <<>> =>
                /\ Sender \in DOMAIN last.registry
                /\ last.registry[Sender].channelId = d.channelId

\* ------------------------------------------------------------------ C39
\* the table of the claim
TypeTable ==
    [tailgate |-> "TAILGATING", slip_fall |-> "MEDICAL_EMERGENCY",
     loitering |-> "SUSPICIOUS_BEHAVIOR", violence |-> "SECURITY_THREAT",
     weapon |-> "SECURITY_THREAT", intrusion |-> "UNAUTHORIZED_ACCESS"]

Tabled(activity, payload) ==
    /\ activity.status = "PENDING_APPROVAL"
    /\ activity.priority = IF payload.severity \in {"low", "medium", "high", "critical"}
                           THEN payload.severity ELSE "medium"
    /\ activity.type = IF payload.type \in DOMAIN TypeTable THEN TypeTable[payload.type]
                       ELSE "GENERAL_SECURITY"

\* the last webhook request had a payload that validate_ambient_payload returned
Validated ==
    /\ ReachedValidation
    /\ validate_ambient_payload(hook.event.payload).result = "ok"

\* the last webhook request built its activity and handed it to store_activity
Mapped ==
    \E i \in CallsTo("put_item") :
        hook.calls[i].arg = map_ambient_to_activity(hook.event.payload).id

\* C39: every validated payload is mapped to an activity with status
\* PENDING_APPROVAL, the severity as priority (medium for any other value) and the
\* type of the table (GENERAL_SECURITY for every other type); the activity that is
\* stored is that activity.
C39_MappedByTable ==
    /\ \A t \in DOMAIN TypeTable \cup {"smoke"}, sv \in ValidSeverities \cup {"urgent"} :
          LET payload == [GoodPayload EXCEPT !.type = t, !.severity = sv]
          IN  Tabled(map_ambient_to_activity(payload), payload)
    /\ Validated =>
          /\ Mapped
          /\ Tabled(map_ambient_to_activity(hook.event.payload), hook.event.payload)
          /\ StoredActivity =>
                LET id == map_ambient_to_activity(hook.event.payload).id
                IN  id \in DOMAIN hook.activities
                    /\ Tabled(hook.activities[id], hook.event.payload)

====
